---- MODULE Spec2Model ----
(***************************************************************************)
(* Telemetry pipeline of the assistant backend:                            *)
(*   - RingBuffer (observability/ring_buffer.py): bounded log store with   *)
(*     an overflow policy, guarded by one asyncio.Lock;                    *)
(*   - RateLimitMiddleware (app/middleware.py): token bucket per client;   *)
(*   - logs_stream.generate_logs (observability/api_logs.py): SSE stream.  *)
(*                                                                         *)
(* Time is counted in ticks of 10 ms (the poll interval of                 *)
(* _wait_for_space); token counts are counted in hundredths of a token, so *)
(* that "tokens + time_passed" (seconds) stays an integer sum.             *)
(***************************************************************************)
EXTENDS Integers, Sequences, FiniteSets, TLC

\* ------------------------------------------------------------------ bounds
MaxSize == 2           \* largest max_size a RingBuffer is constructed with
MaxAdds == 3           \* add calls issued in one behaviour
MaxSleepTicks == 2     \* longest time one asyncio.sleep(0.01) takes, in ticks
MaxRpm == 3            \* largest small requests_per_minute tried
MaxDenied == 2         \* denied_now stops counting here
MaxHeartbeats == 2     \* heartbeats one stream sends in one behaviour
T0 == 6001             \* time.time() when the process starts, in ticks
MaxSharedBacklog == 2  \* largest backlog two timed streams deliver side by side
MaxEarlyInits == 1     \* initialize_log_buffer calls made before app.main is imported
MaxKeyLen == 2         \* longest X-API-Key header sent, in characters
MaxKeysLen == 3        \* longest Settings.api_keys tried, in characters
MaxTextLen == 7        \* longest text over TextChars handed to mask_all
MaxDepth == 2          \* deepest nesting of a payload value handed to mask_dict
MaxMoreAdds == 1       \* add calls issued on a store that began full
MaxMinutes == 2        \* the warnings are followed for this many minutes

\* ------------------------------------------------------- program constants
TicksPerSecond == 100  \* one tick is the 0.01 s of asyncio.sleep(0.01)
Timeout == 100         \* _wait_for_space(timeout=1.0), in ticks
WarnCooldown == 6000   \* "now - self._last_warning > 60", in ticks
DefaultRpm == 60       \* RateLimitMiddleware(requests_per_minute=60)
AppRpm == 120          \* create_app: RateLimitMiddleware, requests_per_minute=120
TokenUnit == 100       \* one token, in hundredths (one tick of refill each)
RetryAfter == 60       \* "retry_after": 60 and int(now + 60), in seconds
BacklogLimit == 100    \* generate_logs: log_buffer.get_recent(100)

None == "<None>"       \* Python's None (distinct from the empty string)

Tasks == {"t1", "t2"}
ClientKeys == {"10.0.0.1", "unknown"}
Streams == {"s1", "s2"}

DROP_OLDEST == "drop_oldest"
BLOCK == "block"
DROP_NEWEST == "drop_newest"
BufferPolicy == {DROP_OLDEST, BLOCK, DROP_NEWEST}

\* LogEntry: the fields the store reads (timestamp, level, module,
\* correlation_id); message, function, line, user_id and extra are carried
\* along unread and are left out.
LogEntry(ts, lv, md, cid) ==
    [timestamp |-> ts, level |-> lv, module |-> md, correlation_id |-> cid]

Entries == { LogEntry(1, "INFO", "main", None),
             LogEntry(2, "ERROR", "database", "c1") }

Min(a, b) == IF a <= b THEN a ELSE b
Max(a, b) == IF a >= b THEN a ELSE b

\* the last n elements of s (s[-n:] for 0 < n <= len(s))
LastN(s, n) == SubSeq(s, Len(s) - n + 1, Len(s))

VARIABLES
    max_size,        \* RingBuffer.max_size
    policy,          \* RingBuffer.policy
    _buffer,         \* RingBuffer._buffer, oldest first
    _locked,         \* RingBuffer._lock is held
    _add_count,      \* RingBuffer._add_count      ("added")
    _drop_count,     \* RingBuffer._drop_count     ("dropped")
    _dropped_count,  \* RingBuffer._dropped_count  ("droppedOldest")
    _last_warning,   \* RingBuffer._last_warning
    now,             \* time.time(), in ticks
    pc,              \* per task: where it stands in its store operation
    op,              \* per task: the operation it last invoked
    arg,             \* per task: the argument of that operation
    ret,             \* per task: <<operation, value it returned>>
    start_time,      \* per task: start_time of its _wait_for_space
    history,         \* add calls that have returned: <<entry, result>>, in order
    cleared,         \* some clear() has run
    requests_per_minute,  \* RateLimitMiddleware.requests_per_minute
    clients,         \* the client addresses that send requests
    buckets,         \* RateLimitMiddleware.buckets: key -> <<tokens, last_refill>>
    response,        \* what dispatch returned last
    admitted_now,    \* per key: requests admitted since the clock last moved
    denied_now,      \* per key: requests denied since the clock last moved
    at_tick,         \* buckets as they were when the clock last moved
    api_log_buffer,  \* what the name log_buffer is bound to in api_logs
    spc,             \* per stream: where generate_logs stands
    recent_logs,     \* per stream: recent_logs of generate_logs
    idx,             \* per stream: position of the backlog loop in recent_logs
    events,          \* per stream: the events yielded so far
    disconnected,    \* per stream: the client has gone
    wake,            \* per stream: when its asyncio.sleep ends, in ticks
    gone_at,         \* per stream: when the client went, in ticks
    events_at_gone,  \* per stream: the events yielded when the client went
    log_buffer,      \* what the name log_buffer is bound to in ring_buffer
    instances,       \* the RingBuffers constructed: name -> its arguments
    api_logs_import, \* how far the import of api_logs has come
    app,             \* main.app, the FastAPI application create_app returned
    settings,        \* Settings(): log_buffer_max and log_buffer_policy
    served,          \* log endpoint calls served: <<endpoint, store used>>
    api_keys,        \* Settings.api_keys, a string of comma-separated keys
    selftest,        \* the last request to POST /selftest/run and its answer
    text,            \* a text handed to PIIMasker.mask_all
    masked,          \* what mask_all returned for it
    data,            \* a payload handed to PIIMasker.mask_dict
    masked_data,     \* what mask_dict returned for it
    _waiters,        \* RingBuffer._lock._waiters: who waits for the lock, in order
    _ready,          \* tasks made by asyncio.create_task that have not run yet
    stats_request,   \* a request to GET /logs/stats: where it stands, its result
    window,          \* a time window: its start and the admissions seen since
    denied_since     \* per key: when its run of denied checks began, and how
                     \* long the last run had lasted when an admission ended it

rbvars == <<max_size, policy, _buffer, _locked, _add_count, _drop_count,
            _dropped_count, _last_warning, now, pc, op, arg, ret, start_time,
            history, cleared>>

rlvars == <<requests_per_minute, clients, buckets, response, admitted_now,
            denied_now, at_tick>>

stvars == <<api_log_buffer, spc, recent_logs, idx, events, disconnected>>

tmvars == <<wake, gone_at, events_at_gone>>

wrvars == <<log_buffer, instances, api_logs_import, app, settings, served>>

auvars == <<api_keys, selftest>>

pivars == <<text, masked, data, masked_data>>

lpvars == <<_waiters, _ready, stats_request>>

obvars == <<window, denied_since>>

vars == <<rbvars, rlvars, stvars, tmvars, wrvars, auvars, pivars, lpvars,
          obvars>>

\* ---------------------------------------------------------------- RingBuffer

NoRet == "<pending>"   \* the operation has not returned yet
Pending == <<NoRet>>   \* ret of a task whose operation has not returned
NoArg == [none |-> TRUE]   \* arg of a task whose operation takes no entry

\* optional numeric arguments (start_time, end_time) that were not supplied
NoneNum == -1

\* the filters search() is called with
Filters(lv, md, cid, st, et) ==
    [level |-> lv, module |-> md, correlation_id |-> cid,
     start_time |-> st, end_time |-> et]

SearchArgs == { Filters(None, None, None, NoneNum, NoneNum),
                Filters("INFO", None, None, NoneNum, NoneNum),
                Filters(None, "database", "c1", 2, 2),
                Filters("", None, None, 0, 1),
                Filters(None, None, None, NoneNum, 0) }

\* Python truthiness of an optional string / an optional number
TruthyStr(x) == x # None /\ x # ""
TruthyNum(x) == x # NoneNum /\ x # 0

\* deque(maxlen=max_size).append(e): a full deque discards its oldest element
DequeAppendUnbounded(buf, e) == buf \o <<e>>
DequeAppend(buf, e) ==
    IF Len(buf) >= max_size THEN Tail(buf) \o <<e>> ELSE buf \o <<e>>

\* list(buf)[-n:] for n >= 0 (n = 0 slices from index 0: the whole list)
SliceLast(buf, n) ==
    IF n = 0 THEN buf ELSE LastN(buf, Min(n, Len(buf)))

\* get_recent, lines 119-121
GetRecentResult(buf, limit) ==
    IF limit >= Len(buf) THEN buf ELSE SliceLast(buf, limit)

\* the filter tests of search, lines 172-181: TRUE when the entry is kept
Matches(entry, f) ==
    /\ ~(TruthyStr(f.level) /\ entry.level # f.level)
    /\ ~(TruthyStr(f.module) /\ entry.module # f.module)
    /\ ~(TruthyStr(f.correlation_id) /\ entry.correlation_id # f.correlation_id)
    /\ ~(TruthyNum(f.start_time) /\ entry.timestamp < f.start_time)
    /\ ~(TruthyNum(f.end_time) /\ entry.timestamp > f.end_time)

\* the loop of search, lines 167-183: i runs from the newest entry down
RECURSIVE SearchLoop(_, _, _, _, _)
SearchLoop(buf, i, f, limit, results) ==
    IF i = 0 \/ Len(results) >= limit THEN results
    ELSE IF Matches(buf[i], f)
         THEN SearchLoop(buf, i - 1, f, limit, Append(results, buf[i]))
         ELSE SearchLoop(buf, i - 1, f, limit, results)

\* the scan taken from the oldest entry up
RECURSIVE SearchLoopForward(_, _, _, _, _)
SearchLoopForward(buf, i, f, limit, results) ==
    IF i > Len(buf) \/ Len(results) >= limit THEN results
    ELSE IF Matches(buf[i], f)
         THEN SearchLoopForward(buf, i + 1, f, limit, Append(results, buf[i]))
         ELSE SearchLoopForward(buf, i + 1, f, limit, results)

SearchResultOldestFirst(buf, f, limit) ==
    SearchLoopForward(buf, 1, f, limit, <<>>)

SearchResult(buf, f, limit) == SearchLoop(buf, Len(buf), f, limit, <<>>)

\* get_stats, lines 138-152; ratios and rates are kept as <<numerator,
\* denominator>>, a rate over zero uptime is the number 0
Rate(count, uptime) == IF uptime > 0 THEN <<count, uptime>> ELSE <<0, 1>>

StatsResult ==
    [current_size |-> Len(_buffer),
     max_size |-> max_size,
     usage_ratio |-> <<Len(_buffer), max_size>>,
     total_added |-> _add_count,
     total_dropped |-> _drop_count,
     dropped_oldest |-> _dropped_count,
     add_rate |-> Rate(_add_count, now - T0),
     drop_rate |-> Rate(_drop_count, now - T0),
     uptime_seconds |-> now - T0,
     policy |-> policy]

\* _warn_high_usage, lines 106-114, called when usage_ratio >= 0.8:
\* the value of _last_warning after an insert that leaves size entries
\* a cooldown that has run out when exactly 60 s have passed
LastWarningAtCooldown(size) ==
    IF 10 * size >= 8 * max_size /\ now - _last_warning >= WarnCooldown
    THEN now ELSE _last_warning

LastWarningAfter(size) ==
    IF 10 * size >= 8 * max_size /\ now - _last_warning > WarnCooldown
    THEN now ELSE _last_warning

\* RingBuffer.__init__, lines 49-61, and no task inside an operation
StoreInit(size, pol) ==
    /\ max_size = size
    /\ policy = pol
    /\ _buffer = <<>>
    /\ _locked = FALSE
    /\ _add_count = 0
    /\ _drop_count = 0
    /\ _dropped_count = 0
    /\ _last_warning = 0
    /\ now = T0
    /\ pc = [t \in Tasks |-> "idle"]
    /\ op = [t \in Tasks |-> None]
    /\ arg = [t \in Tasks |-> NoArg]
    /\ ret = [t \in Tasks |-> Pending]
    /\ start_time = [t \in Tasks |-> 0]
    /\ history = <<>>
    /\ cleared = FALSE

\* RateLimitMiddleware.__init__, lines 19-22: no bucket yet
LimiterInit(rpm, cs) ==
    /\ requests_per_minute = rpm
    /\ clients = cs
    /\ buckets = <<>>
    /\ response = None
    /\ admitted_now = [k \in ClientKeys |-> 0]
    /\ denied_now = [k \in ClientKeys |-> 0]
    /\ at_tick = <<>>

\* Settings.log_buffer_max and Settings.log_buffer_policy
DefaultMaxSize == 1000
DefaultPolicy == DROP_OLDEST

\* no stream connected; binding is what "from .ring_buffer import log_buffer"
\* (api_logs.py line 13) found: None (ring_buffer.py line 189) when api_logs
\* is imported before initialize_log_buffer runs, as main.py does, the
\* RingBuffer otherwise
StreamInit(binding) ==
    /\ api_log_buffer = binding
    /\ spc = [s \in Streams |-> "start"]
    /\ recent_logs = [s \in Streams |-> <<>>]
    /\ idx = [s \in Streams |-> 0]
    /\ events = [s \in Streams |-> <<>>]
    /\ disconnected = [s \in Streams |-> FALSE]
    /\ wake = [s \in Streams |-> 0]
    /\ gone_at = [s \in Streams |-> NoneNum]
    /\ events_at_gone = [s \in Streams |-> NoneNum]

\* the process once app.main has been imported: create_app has read the
\* settings the store was constructed with and returned the application
AppStarted ==
    /\ settings = [log_buffer_max |-> max_size, log_buffer_policy |-> policy]
    /\ log_buffer = "RingBuffer"
    /\ instances = [n \in {"RingBuffer"} |->
                       [max_size |-> max_size, policy |-> policy,
                        scheduled |-> 0]]
    /\ api_logs_import = "loaded"
    /\ app = "FastAPI"
    /\ served = {}

\* a header that was not sent (Header(default=None)); header values and
\* texts are sequences of characters
NoHeader == <<None>>

\* Settings.api_keys, its default
DefaultApiKeys ==
    <<"d", "e", "v", "-", "a", "p", "i", "-", "k", "e", "y", "-",
      "c", "h", "a", "n", "g", "e", "-", "i", "n", "-", "p", "r",
      "o", "d", "u", "c", "t", "i", "o", "n">>

\* no request to POST /selftest/run has been answered
NoRequest ==
    [x_api_key |-> NoHeader, valid_body |-> FALSE, api_key |-> None,
     status_code |-> 0]

\* the settings hold the keys, and no request to /selftest/run yet
AuthInit(keys) ==
    /\ api_keys = keys
    /\ selftest = NoRequest

\* an empty mapping, and the result of a masking call not made
EmptyDict == <<"dict", <<>> >>
NotMasked == <<NoRet>>

\* pii_masker, line 153, with nothing masked yet
MaskerInit(t, d) ==
    /\ text = t
    /\ masked = NotMasked
    /\ data = d
    /\ masked_data = NotMasked

\* an empty mapping of names to counts (a dict with no key)
NoCounts == [x \in {} |-> 0]

\* no request to GET /logs/stats has been made
NoStats ==
    [pc |-> "idle", current_size |-> NoneNum, all_entries |-> <<>>,
     total_entries |-> NoneNum, entries_by_level |-> NoCounts,
     entries_by_module |-> NoCounts]

\* the event loop with no task waiting: asyncio.Lock() has no waiter, no
\* task was created, no request to /logs/stats is being served
LoopIdle ==
    /\ _waiters = <<>>
    /\ _ready = <<>>
    /\ stats_request = NoStats

\* no time window is being watched and no key has been denied
NoWindow == [start |-> NoneNum, admitted |-> [k \in ClientKeys |-> 0]]

Unobserved ==
    /\ window = NoWindow
    /\ denied_since =
          [k \in ClientKeys |-> [since |-> NoneNum, ended_after |-> NoneNum]]

\* the API-key check, the masker and the event loop with nothing to do
EdgeIdle ==
    /\ AuthInit(DefaultApiKeys)
    /\ MaskerInit(<<>>, EmptyDict)
    /\ LoopIdle
    /\ Unobserved

InitRB ==
    /\ \E size \in 1..MaxSize, pol \in BufferPolicy : StoreInit(size, pol)
    /\ LimiterInit(AppRpm, ClientKeys)
    /\ StreamInit(None)
    /\ AppStarted
    /\ EdgeIdle

\* add calls issued so far: returned ones plus those in flight
AddsIssued ==
    Len(history) + Cardinality({t \in Tasks : op[t] = "add" /\ pc[t] # "idle"})

\* a task invokes a store operation and reaches "async with self._lock"
Invoke(t, o, a) ==
    /\ pc[t] = "idle"
    /\ pc' = [pc EXCEPT ![t] = "acquire"]
    /\ op' = [op EXCEPT ![t] = o]
    /\ arg' = [arg EXCEPT ![t] = a]
    /\ ret' = [ret EXCEPT ![t] = Pending]
    /\ UNCHANGED <<max_size, policy, _buffer, _locked, _add_count, _drop_count,
                   _dropped_count, _last_warning, now, start_time, history,
                   cleared>>

CallAdd(t) == \E e \in Entries : AddsIssued < MaxAdds /\ Invoke(t, "add", e)
CallGetRecent(t) == Invoke(t, "get_recent", NoArg)
CallGetAll(t) == Invoke(t, "get_all", NoArg)
CallClear(t) == Invoke(t, "clear", NoArg)
CallGetStats(t) == Invoke(t, "get_stats", NoArg)
CallSearch(t) == Invoke(t, "search", NoArg)

\* asyncio.Lock.acquire: proceeds only while the lock is free
AcquireIgnoringLock(t) ==
    /\ pc[t] = "acquire"
    /\ _locked' = TRUE
    /\ pc' = [pc EXCEPT ![t] = "locked"]
    /\ UNCHANGED <<max_size, policy, _buffer, _add_count, _drop_count,
                   _dropped_count, _last_warning, now, op, arg, ret,
                   start_time, history, cleared>>

Acquire(t) ==
    /\ pc[t] = "acquire"
    /\ ~_locked
    /\ _locked' = TRUE
    /\ pc' = [pc EXCEPT ![t] = "locked"]
    /\ UNCHANGED <<max_size, policy, _buffer, _add_count, _drop_count,
                   _dropped_count, _last_warning, now, op, arg, ret,
                   start_time, history, cleared>>

\* the operation returns v and leaves "async with self._lock"
Return(t, v) ==
    /\ pc' = [pc EXCEPT ![t] = "idle"]
    /\ ret' = [ret EXCEPT ![t] = <<op[t], v>>]
    /\ arg' = [arg EXCEPT ![t] = NoArg]
    /\ start_time' = [start_time EXCEPT ![t] = 0]
    /\ _locked' = FALSE

\* add returns v: Return plus the record of the call
ReturnAdd(t, v) ==
    /\ Return(t, v)
    /\ history' = Append(history, <<arg[t], v>>)

\* add, lines 79-87: append, count, warn, return True
\* an insert that leaves total_added as it was
InsertUncounted(t) ==
    /\ _buffer' = DequeAppend(_buffer, arg[t])
    /\ _add_count' = _add_count
    /\ _last_warning' = LastWarningAfter(Len(_buffer'))
    /\ ReturnAdd(t, TRUE)

Insert(t) ==
    /\ _buffer' = DequeAppend(_buffer, arg[t])
    /\ _add_count' = _add_count + 1
    /\ _last_warning' = LastWarningAfter(Len(_buffer'))
    /\ ReturnAdd(t, TRUE)

\* add, lines 67-70: the counters of the drop_oldest branch
CountDropOldestOnlyOldest ==
    /\ _dropped_count' = _dropped_count + 1
    /\ _drop_count' = _drop_count

CountDropOldest ==
    /\ _dropped_count' = _dropped_count + 1
    /\ _drop_count' = _drop_count + 1

\* add, lines 74-77: the drop_newest branch
AddDropNewestAsOldest(t) ==
    /\ _drop_count' = _drop_count + 1
    /\ _dropped_count' = _dropped_count + 1
    /\ ReturnAdd(t, FALSE)
    /\ UNCHANGED <<_buffer, _add_count, _last_warning, now>>

AddDropNewest(t) ==
    /\ _drop_count' = _drop_count + 1
    /\ ReturnAdd(t, FALSE)
    /\ UNCHANGED <<_buffer, _add_count, _dropped_count, _last_warning, now>>

\* a wait that gives the lock back while it sleeps
EnterWaitReleasing(t) ==
    /\ start_time' = [start_time EXCEPT ![t] = now]
    /\ pc' = [pc EXCEPT ![t] = "sleep"]
    /\ _locked' = FALSE
    /\ UNCHANGED <<_buffer, _add_count, _drop_count, _dropped_count,
                   _last_warning, now, arg, ret, history>>

\* add, lines 71-73 and _wait_for_space, lines 91-99: the first pass of the
\* wait loop finds the buffer full and no time elapsed, and sleeps; the lock
\* stays held
EnterWait(t) ==
    /\ start_time' = [start_time EXCEPT ![t] = now]
    /\ pc' = [pc EXCEPT ![t] = "sleep"]
    /\ UNCHANGED <<_buffer, _locked, _add_count, _drop_count, _dropped_count,
                   _last_warning, now, arg, ret, history>>

\* add, lines 65-87, run by the task that holds the lock
Add(t) ==
    /\ pc[t] = "locked" /\ op[t] = "add"
    /\ IF Len(_buffer) >= max_size
       THEN CASE policy = DROP_OLDEST ->
                    /\ CountDropOldest
                    /\ Insert(t)
                    /\ UNCHANGED now
              [] policy = BLOCK -> EnterWait(t)
              [] policy = DROP_NEWEST -> AddDropNewest(t)
       ELSE /\ Insert(t)
            /\ UNCHANGED <<_drop_count, _dropped_count, now>>
    /\ UNCHANGED <<max_size, policy, op, cleared>>

\* a timed-out add that returns without leaving "async with self._lock"
TimeoutDropKeepingLock(t) ==
    /\ _drop_count' = _drop_count + 1
    /\ pc' = [pc EXCEPT ![t] = "idle"]
    /\ ret' = [ret EXCEPT ![t] = <<op[t], FALSE>>]
    /\ arg' = [arg EXCEPT ![t] = NoArg]
    /\ start_time' = [start_time EXCEPT ![t] = 0]
    /\ history' = Append(history, <<arg[t], FALSE>>)
    /\ UNCHANGED <<_buffer, _add_count, _locked>>

\* _wait_for_space, lines 94-97: the wait budget is spent
TimeoutDropUncounted(t) ==
    /\ ReturnAdd(t, FALSE)
    /\ UNCHANGED <<_buffer, _add_count, _drop_count>>

TimeoutDrop(t) ==
    /\ _drop_count' = _drop_count + 1
    /\ ReturnAdd(t, FALSE)
    /\ UNCHANGED <<_buffer, _add_count>>

\* _wait_for_space, lines 93-104: asyncio.sleep(0.01) returns after d ticks
\* and the loop condition is tested again
WaitForSpace(t) ==
    /\ pc[t] = "sleep"
    /\ \E d \in 1..MaxSleepTicks :
        /\ now' = now + d
        /\ IF Len(_buffer) >= max_size
           THEN IF now' - start_time[t] > Timeout
                THEN TimeoutDrop(t)
                ELSE UNCHANGED <<_buffer, _add_count, _drop_count, _locked,
                                 pc, arg, ret, start_time, history>>
           ELSE /\ _buffer' = DequeAppend(_buffer, arg[t])
                /\ _add_count' = _add_count + 1
                /\ ReturnAdd(t, TRUE)
                /\ UNCHANGED _drop_count
    /\ UNCHANGED <<max_size, policy, _dropped_count, _last_warning, op,
                   cleared>>

\* a reading operation returns and changes nothing in the store; the value
\* it hands to its caller (GetRecentResult, _buffer, StatsResult or
\* SearchResult of the state it runs in) is not kept by the task
ReadReturn(t) ==
    /\ pc' = [pc EXCEPT ![t] = "idle"]
    /\ op' = [op EXCEPT ![t] = None]
    /\ _locked' = FALSE
    /\ UNCHANGED <<max_size, policy, _buffer, _add_count, _drop_count,
                   _dropped_count, _last_warning, now, arg, ret, start_time,
                   history, cleared>>

GetRecent(t) ==
    /\ pc[t] = "locked" /\ op[t] = "get_recent"
    /\ ReadReturn(t)

GetAll(t) ==
    /\ pc[t] = "locked" /\ op[t] = "get_all"
    /\ ReadReturn(t)

GetStats(t) ==
    /\ pc[t] = "locked" /\ op[t] = "get_stats"
    /\ ReadReturn(t)

Search(t) ==
    /\ pc[t] = "locked" /\ op[t] = "search"
    /\ ReadReturn(t)

\* clear, lines 130-133
Clear(t) ==
    /\ pc[t] = "locked" /\ op[t] = "clear"
    /\ _buffer' = <<>>
    /\ cleared' = TRUE
    /\ Return(t, Len(_buffer))
    /\ UNCHANGED <<max_size, policy, _add_count, _drop_count, _dropped_count,
                   _last_warning, now, op, history>>

\* the rate limiter and the streams play no part
StoreOnly ==
    UNCHANGED <<rlvars, stvars, tmvars, wrvars, auvars, pivars, lpvars,
                obvars>>

NextRB ==
    \/ \E t \in Tasks : CallAdd(t) /\ StoreOnly
    \/ \E t \in Tasks : CallGetRecent(t) /\ StoreOnly
    \/ \E t \in Tasks : CallGetAll(t) /\ StoreOnly
    \/ \E t \in Tasks : CallClear(t) /\ StoreOnly
    \/ \E t \in Tasks : CallGetStats(t) /\ StoreOnly
    \/ \E t \in Tasks : CallSearch(t) /\ StoreOnly
    \/ \E t \in Tasks : Acquire(t) /\ StoreOnly
    \/ \E t \in Tasks : Add(t) /\ StoreOnly
    \/ \E t \in Tasks : WaitForSpace(t) /\ StoreOnly
    \/ \E t \in Tasks : GetRecent(t) /\ StoreOnly
    \/ \E t \in Tasks : GetAll(t) /\ StoreOnly
    \/ \E t \in Tasks : GetStats(t) /\ StoreOnly
    \/ \E t \in Tasks : Search(t) /\ StoreOnly
    \/ \E t \in Tasks : Clear(t) /\ StoreOnly

\* the store under concurrent tasks
Spec == InitRB /\ [][NextRB]_vars

\* a store filled to its capacity at the start of the process by adds that
\* returned True, the last of which logged the high-usage warning
StoreFull(size, pol) ==
    /\ max_size = size
    /\ policy = pol
    /\ _buffer = [i \in 1..size |-> LogEntry(i, "INFO", "main", None)]
    /\ _locked = FALSE
    /\ _add_count = size
    /\ _drop_count = 0
    /\ _dropped_count = 0
    /\ _last_warning = T0
    /\ now = T0
    /\ pc = [t \in Tasks |-> "idle"]
    /\ op = [t \in Tasks |-> None]
    /\ arg = [t \in Tasks |-> NoArg]
    /\ ret = [t \in Tasks |-> Pending]
    /\ start_time = [t \in Tasks |-> 0]
    /\ history = [i \in 1..size |-> <<LogEntry(i, "INFO", "main", None), TRUE>>]
    /\ cleared = FALSE

InitFull ==
    /\ \E size \in 1..MaxSize, pol \in BufferPolicy : StoreFull(size, pol)
    /\ LimiterInit(AppRpm, ClientKeys)
    /\ StreamInit(None)
    /\ AppStarted
    /\ EdgeIdle

\* add called on the store that began full
CallAddMore(t) ==
    \E e \in Entries : AddsIssued < max_size + MaxMoreAdds /\ Invoke(t, "add", e)

NextFull ==
    \/ \E t \in Tasks : CallAddMore(t) /\ StoreOnly
    \/ \E t \in Tasks : CallGetRecent(t) /\ StoreOnly
    \/ \E t \in Tasks : CallGetAll(t) /\ StoreOnly
    \/ \E t \in Tasks : CallClear(t) /\ StoreOnly
    \/ \E t \in Tasks : CallGetStats(t) /\ StoreOnly
    \/ \E t \in Tasks : CallSearch(t) /\ StoreOnly
    \/ \E t \in Tasks : Acquire(t) /\ StoreOnly
    \/ \E t \in Tasks : Add(t) /\ StoreOnly
    \/ \E t \in Tasks : WaitForSpace(t) /\ StoreOnly
    \/ \E t \in Tasks : GetRecent(t) /\ StoreOnly
    \/ \E t \in Tasks : GetAll(t) /\ StoreOnly
    \/ \E t \in Tasks : GetStats(t) /\ StoreOnly
    \/ \E t \in Tasks : Search(t) /\ StoreOnly
    \/ \E t \in Tasks : Clear(t) /\ StoreOnly

\* the event loop runs every task that is ready, and asyncio.sleep returns:
\* a task inside an operation takes its next step; asyncio.Lock wakes its
\* waiters in the order they came, so a task waiting for the lock gets it
\* once it has been released often enough (each of these steps moves the
\* task or the clock)
FairRB ==
    /\ \A t \in Tasks : SF_<<pc, now>>(Acquire(t) /\ StoreOnly)
    /\ \A t \in Tasks :
          WF_<<pc, now>>(( \/ Add(t) \/ WaitForSpace(t) \/ GetRecent(t)
                           \/ GetAll(t) \/ GetStats(t) \/ Search(t)
                           \/ Clear(t) ) /\ StoreOnly)

\* concurrent tasks on a store that began full, kept running by the event
\* loop
SpecFair == InitFull /\ [][NextFull]_vars /\ FairRB

\* ------------------------------------------ RingBuffer on the event loop

\* the rate limiter, the streams and the edge play no part
LoopFrame ==
    UNCHANGED <<rlvars, stvars, tmvars, wrvars, auvars, pivars, obvars>>

\* a task is between two suspension points: it has entered "async with
\* self._lock" and runs the body of its operation; the event loop runs no
\* other task until this one returns or sleeps
Running == \E t \in Tasks : pc[t] = "locked"

\* asyncio.Lock.acquire returns at once, without suspending the caller, when
\* the lock is not held and no waiter is queued
LockFree == ~_locked /\ _waiters = <<>>

\* a coroutine of the store starts to run and reaches "async with
\* self._lock": it enters at once when the lock is free, and joins the
\* waiters otherwise
Enter(t, o, a) ==
    /\ ~Running
    /\ op' = [op EXCEPT ![t] = o]
    /\ arg' = [arg EXCEPT ![t] = a]
    /\ ret' = [ret EXCEPT ![t] = Pending]
    /\ IF LockFree
       THEN /\ pc' = [pc EXCEPT ![t] = "locked"]
            /\ _locked' = TRUE
            /\ UNCHANGED _waiters
       ELSE /\ pc' = [pc EXCEPT ![t] = "acquire"]
            /\ _waiters' = Append(_waiters, t)
            /\ UNCHANGED _locked
    /\ UNCHANGED <<max_size, policy, _buffer, _add_count, _drop_count,
                   _dropped_count, _last_warning, now, start_time, history,
                   cleared>>

\* add_log_entry, lines 52-65: asyncio.create_task(log_buffer.add(entry))
\* makes the task and returns; the task has not run yet
add_log_entry(t, e) ==
    /\ ~Running
    /\ pc[t] = "idle"
    /\ AddsIssued < MaxAdds
    /\ pc' = [pc EXCEPT ![t] = "created"]
    /\ op' = [op EXCEPT ![t] = "add"]
    /\ arg' = [arg EXCEPT ![t] = e]
    /\ ret' = [ret EXCEPT ![t] = Pending]
    /\ _ready' = Append(_ready, t)
    /\ UNCHANGED <<max_size, policy, _buffer, _locked, _add_count, _drop_count,
                   _dropped_count, _last_warning, now, start_time, history,
                   cleared, _waiters, stats_request>>

\* the entries handed to add_log_entry carry the time of the call: the n-th
\* call hands in timestamp n
Stamped(e) == [e EXCEPT !.timestamp = AddsIssued + 1]

\* the event loop starts the tasks in the order they were made
\* a loop that starts any of the tasks that were made
StartAny(t) ==
    /\ pc[t] = "created"
    /\ Enter(t, "add", arg[t])
    /\ _ready' = SelectSeq(_ready, LAMBDA u : u # t)
    /\ UNCHANGED stats_request

Start(t) ==
    /\ pc[t] = "created"
    /\ Head(_ready) = t
    /\ Enter(t, "add", arg[t])
    /\ _ready' = Tail(_ready)
    /\ UNCHANGED stats_request

\* clear_logs, api_logs.py: "await log_buffer.clear()" in a request handler
ClearLogs(t) ==
    /\ pc[t] = "idle"
    /\ Enter(t, "clear", NoArg)
    /\ UNCHANGED <<_ready, stats_request>>

\* release wakes the first waiter, which takes the lock when the loop runs it
Wake(t) ==
    /\ ~Running
    /\ _waiters # <<>> /\ Head(_waiters) = t
    /\ Acquire(t)
    /\ _waiters' = Tail(_waiters)
    /\ UNCHANGED <<_ready, stats_request>>

\* the counts of get_log_stats, lines 194-201: field value -> occurrences
Counts(entries, field) ==
    [k \in {entries[i][field] : i \in DOMAIN entries} |->
        Cardinality({i \in DOMAIN entries : entries[i][field] = k})]

\* get_log_stats, lines 186-209: the response built from
\* buffer_stats["current_size"] and all_entries
LogStats(current_size, all_entries) ==
    IF all_entries = <<>>
    THEN [pc |-> "done", current_size |-> current_size,
          all_entries |-> all_entries, total_entries |-> 0,
          entries_by_level |-> NoCounts, entries_by_module |-> NoCounts]
    ELSE [pc |-> "done", current_size |-> current_size,
          all_entries |-> all_entries, total_entries |-> current_size,
          entries_by_level |-> Counts(all_entries, "level"),
          entries_by_module |-> Counts(all_entries, "module")]

\* get_log_stats, lines 181-184: on the free lock get_stats and get_all both
\* return without suspending; otherwise the handler waits for the lock in
\* get_stats
GetLogStats ==
    /\ ~Running
    /\ stats_request.pc = "idle"
    /\ IF LockFree
       THEN /\ stats_request' = LogStats(StatsResult.current_size, _buffer)
            /\ UNCHANGED _waiters
       ELSE /\ stats_request' = [stats_request EXCEPT !.pc = "get_stats"]
            /\ _waiters' = Append(_waiters, "stats")
    /\ UNCHANGED <<rbvars, _ready>>

\* the handler gets the lock for get_stats, line 181, and goes on to get_all,
\* line 184: with other waiters queued it joins them at the back
StatsGetStats ==
    /\ ~Running /\ ~_locked
    /\ stats_request.pc = "get_stats"
    /\ _waiters # <<>> /\ Head(_waiters) = "stats"
    /\ IF Tail(_waiters) = <<>>
       THEN /\ stats_request' = LogStats(StatsResult.current_size, _buffer)
            /\ _waiters' = <<>>
       ELSE /\ stats_request' =
                  [stats_request EXCEPT !.pc = "get_all",
                                        !.current_size = StatsResult.current_size]
            /\ _waiters' = Append(Tail(_waiters), "stats")
    /\ UNCHANGED <<rbvars, _ready>>

\* the handler gets the lock for get_all, line 184, and builds the response
StatsGetAll ==
    /\ ~Running /\ ~_locked
    /\ stats_request.pc = "get_all"
    /\ _waiters # <<>> /\ Head(_waiters) = "stats"
    /\ stats_request' = LogStats(stats_request.current_size, _buffer)
    /\ _waiters' = Tail(_waiters)
    /\ UNCHANGED <<rbvars, _ready>>

InitLoop ==
    /\ \E size \in 1..MaxSize, pol \in BufferPolicy : StoreInit(size, pol)
    /\ LimiterInit(AppRpm, ClientKeys)
    /\ StreamInit("RingBuffer")
    /\ AppStarted
    /\ EdgeIdle

NextLoop ==
    \/ \E t \in Tasks, e \in Entries : add_log_entry(t, Stamped(e)) /\ LoopFrame
    \/ \E t \in Tasks : Start(t) /\ LoopFrame
    \/ \E t \in Tasks : ClearLogs(t) /\ LoopFrame
    \/ \E t \in Tasks : Wake(t) /\ LoopFrame
    \/ \E t \in Tasks : Add(t) /\ StoreOnly
    \/ \E t \in Tasks : WaitForSpace(t) /\ StoreOnly
    \/ \E t \in Tasks : Clear(t) /\ StoreOnly
    \/ GetLogStats /\ LoopFrame
    \/ StatsGetStats /\ LoopFrame
    \/ StatsGetAll /\ LoopFrame

\* the store, add_log_entry, clear_logs and get_log_stats as the event loop
\* runs them: one task at a time, the lock handed on in the order of arrival
SpecLoop == InitLoop /\ [][NextLoop]_vars

\* ------------------------------------------------ RingBuffer, one caller

\* the task whose calls follow one another, each on the free lock
Callers == {"t1"}

\* the arguments get_recent and search are called with
Limits == 0..(MaxSize + 1)

\* a call made while the lock is free enters "async with self._lock" without
\* suspending and runs to its return: o(a) has returned v to task t
Answer(t, o, a, v) ==
    /\ pc[t] = "idle" /\ ~_locked
    /\ op' = [op EXCEPT ![t] = o]
    /\ arg' = [arg EXCEPT ![t] = a]
    /\ ret' = [ret EXCEPT ![t] = <<o, v>>]
    /\ UNCHANGED <<max_size, policy, _locked, pc, start_time>>

\* add, lines 63-87, and _wait_for_space, lines 89-104: under block the call
\* on a full buffer keeps the lock for the whole wait budget and gives up at
\* the first pass of the loop that finds more than the budget elapsed
AddNow(t, e) ==
    /\ Len(history) < MaxAdds
    /\ IF Len(_buffer) >= max_size /\ policy # DROP_OLDEST
       THEN /\ _drop_count' = _drop_count + 1
            /\ IF policy = BLOCK
               THEN \E d \in 1..MaxSleepTicks : now' = now + Timeout + d
               ELSE now' = now
            /\ Answer(t, "add", e, FALSE)
            /\ history' = Append(history, <<e, FALSE>>)
            /\ UNCHANGED <<_buffer, _add_count, _dropped_count, _last_warning>>
       ELSE /\ IF Len(_buffer) >= max_size
               THEN CountDropOldest
               ELSE UNCHANGED <<_drop_count, _dropped_count>>
            /\ _buffer' = DequeAppend(_buffer, e)
            /\ _add_count' = _add_count + 1
            /\ _last_warning' = LastWarningAfter(Len(_buffer'))
            /\ Answer(t, "add", e, TRUE)
            /\ history' = Append(history, <<e, TRUE>>)
            /\ now' = now
    /\ UNCHANGED cleared

\* a reading call leaves the store as it is
ReadNow(t, o, a, v) ==
    /\ Answer(t, o, a, v)
    /\ UNCHANGED <<_buffer, _add_count, _drop_count, _dropped_count,
                   _last_warning, now, history, cleared>>

\* get_recent, lines 116-121
GetRecentNow(t, limit) ==
    ReadNow(t, "get_recent", limit, GetRecentResult(_buffer, limit))

\* get_all, lines 123-126
GetAllNow(t) == ReadNow(t, "get_all", NoArg, _buffer)

\* search, lines 154-185
SearchNow(t, f, limit) ==
    ReadNow(t, "search", [filters |-> f, limit |-> limit],
            SearchResult(_buffer, f, limit))

\* clear, lines 128-133
\* a clear that starts the counters afresh
ClearNowResetting(t) ==
    /\ _buffer' = <<>>
    /\ cleared' = TRUE
    /\ _add_count' = 0
    /\ _drop_count' = 0
    /\ _dropped_count' = 0
    /\ Answer(t, "clear", NoArg, Len(_buffer))
    /\ UNCHANGED <<_last_warning, now, history>>

ClearNow(t) ==
    /\ _buffer' = <<>>
    /\ cleared' = TRUE
    /\ Answer(t, "clear", NoArg, Len(_buffer))
    /\ UNCHANGED <<_add_count, _drop_count, _dropped_count, _last_warning,
                   now, history>>

InitQuery ==
    /\ \E size \in 1..MaxSize, pol \in BufferPolicy : StoreInit(size, pol)
    /\ LimiterInit(AppRpm, ClientKeys)
    /\ StreamInit(None)
    /\ AppStarted
    /\ EdgeIdle

NextQuery ==
    \/ \E t \in Callers, e \in Entries : AddNow(t, e) /\ StoreOnly
    \/ \E t \in Callers, limit \in Limits : GetRecentNow(t, limit) /\ StoreOnly
    \/ \E t \in Callers : GetAllNow(t) /\ StoreOnly
    \/ \E t \in Callers, f \in SearchArgs, limit \in Limits :
          SearchNow(t, f, limit) /\ StoreOnly
    \/ \E t \in Callers : ClearNow(t) /\ StoreOnly

\* the store under one caller whose calls follow one another
SpecQuery == InitQuery /\ [][NextQuery]_vars

\* ------------------------------------------ RingBuffer, the usage warning

\* the times that pass between two calls: a tick less than the cooldown of
\* the warning, the cooldown, a tick more
WarnGaps == {WarnCooldown - 1, WarnCooldown, WarnCooldown + 1}

\* time passes while no call is in progress
Elapse ==
    /\ \E d \in WarnGaps :
          /\ now + d <= T0 + MaxMinutes * WarnCooldown + 2
          /\ now' = now + d
    /\ UNCHANGED <<max_size, policy, _buffer, _locked, _add_count, _drop_count,
                   _dropped_count, _last_warning, pc, op, arg, ret, start_time,
                   history, cleared>>

NextWarn ==
    \/ \E t \in Callers, e \in Entries : AddNow(t, e) /\ StoreOnly
    \/ \E t \in Callers : ClearNow(t) /\ StoreOnly
    \/ Elapse /\ StoreOnly

\* one caller adding and clearing over some minutes
SpecWarn == InitQuery /\ [][NextWarn]_vars

\* ---------------------------------------------------------- RateLimitMiddleware

\* the instants at which the clock is read: the start, half a second, one
\* second, one minute and two minutes after it
Offsets == {0, 50, 100, 6000, 12000}
Instants == { T0 + o : o \in Offsets }

\* self.buckets[client_ip] on the defaultdict, line 28: a missing key is
\* inserted with (requests_per_minute, time.time())
WithDefault(bs, k) ==
    IF k \in DOMAIN bs THEN bs
    ELSE [x \in DOMAIN bs \cup {k} |->
            IF x = k THEN <<requests_per_minute * TokenUnit, now>> ELSE bs[x]]

\* lines 32-33: tokens = min(requests_per_minute, tokens + time_passed)
RefillUncapped(tokens, last_refill) == tokens + (now - last_refill)
Refill(tokens, last_refill) ==
    Min(requests_per_minute * TokenUnit, tokens + (now - last_refill))

\* line 36, negated: the request can proceed
\* a check that asks for more than one token
CanProceedStrict(tokens) == tokens > TokenUnit

CanProceed(tokens) == tokens >= TokenUnit

\* line 44: tokens -= 1
ConsumeNone(tokens) == tokens
Consume(tokens) == tokens - TokenUnit

\* int(x) of a non-negative amount kept in hundredths
IntPart(x) == x \div TokenUnit

\* lines 36-41
Denied(k) ==
    [client |-> k, status_code |-> 429,
     content |-> [detail |-> "Rate limit exceeded", retry_after |-> RetryAfter],
     headers |-> <<>>]

\* an admitted response on which X-RateLimit-Reset is not set
AdmittedWithoutReset(k, tokens) ==
    [client |-> k, status_code |-> 200, content |-> None,
     headers |-> [XRateLimitLimit |-> requests_per_minute,
                  XRateLimitRemaining |-> IntPart(tokens)]]

\* lines 48-53, the downstream handler answering 200
Admitted(k, tokens) ==
    [client |-> k, status_code |-> 200, content |-> None,
     headers |-> [XRateLimitLimit |-> requests_per_minute,
                  XRateLimitRemaining |-> IntPart(tokens),
                  XRateLimitReset |-> IntPart(now + RetryAfter * TicksPerSecond)]]

\* dispatch persisting the refilled bucket of a denied request
DispatchStoringDenied(k) ==
    /\ k \in clients
    /\ LET bs == WithDefault(buckets, k)
           tokens == Refill(bs[k][1], bs[k][2])
       IN IF ~CanProceed(tokens)
          THEN /\ buckets' = [bs EXCEPT ![k] = <<tokens, now>>]
               /\ response' = Denied(k)
               /\ denied_now' =
                    [denied_now EXCEPT ![k] = Min(MaxDenied, denied_now[k] + 1)]
               /\ UNCHANGED admitted_now
          ELSE /\ buckets' = [bs EXCEPT ![k] = <<Consume(tokens), now>>]
               /\ response' = Admitted(k, Consume(tokens))
               /\ admitted_now' = [admitted_now EXCEPT ![k] = admitted_now[k] + 1]
               /\ UNCHANGED denied_now
    /\ UNCHANGED <<requests_per_minute, clients, at_tick, now>>

\* dispatch deciding on the bucket as it was read before the other checks
\* of the same instant stored theirs
DispatchStale(k) ==
    /\ k \in clients
    /\ LET bs == WithDefault(buckets, k)
           seen == IF k \in DOMAIN at_tick THEN at_tick[k]
                   ELSE <<requests_per_minute * TokenUnit, now>>
           tokens == Refill(seen[1], seen[2])
       IN IF ~CanProceed(tokens)
          THEN /\ buckets' = bs
               /\ response' = Denied(k)
               /\ denied_now' =
                    [denied_now EXCEPT ![k] = Min(MaxDenied, denied_now[k] + 1)]
               /\ UNCHANGED admitted_now
          ELSE /\ buckets' = [bs EXCEPT ![k] = <<Consume(tokens), now>>]
               /\ response' = Admitted(k, Consume(tokens))
               /\ admitted_now' = [admitted_now EXCEPT ![k] = admitted_now[k] + 1]
               /\ UNCHANGED denied_now
    /\ UNCHANGED <<requests_per_minute, clients, at_tick, now>>

\* RateLimitMiddleware.dispatch, lines 24-53, for a request of client k
Dispatch(k) ==
    /\ k \in clients
    /\ LET bs == WithDefault(buckets, k)
           tokens == Refill(bs[k][1], bs[k][2])
       IN IF ~CanProceed(tokens)
          THEN /\ buckets' = bs
               /\ response' = Denied(k)
               /\ denied_now' =
                    [denied_now EXCEPT ![k] = Min(MaxDenied, denied_now[k] + 1)]
               /\ UNCHANGED admitted_now
          ELSE /\ buckets' = [bs EXCEPT ![k] = <<Consume(tokens), now>>]
               /\ response' = Admitted(k, Consume(tokens))
               /\ admitted_now' = [admitted_now EXCEPT ![k] = admitted_now[k] + 1]
               /\ UNCHANGED denied_now
    /\ UNCHANGED <<requests_per_minute, clients, at_tick, now>>

\* time.time() moves on to a later instant
Tick ==
    /\ \E n \in Instants : n > now /\ now' = n
    /\ at_tick' = buckets
    /\ admitted_now' = [k \in ClientKeys |-> 0]
    /\ denied_now' = [k \in ClientKeys |-> 0]
    /\ UNCHANGED <<requests_per_minute, clients, buckets, response>>

\* the store plays no part: it stays as constructed from the settings
StoreIdle ==
    UNCHANGED <<max_size, policy, _buffer, _locked, _add_count, _drop_count,
                _dropped_count, _last_warning, pc, op, arg, ret, start_time,
                history, cleared>>

InitRL ==
    /\ StoreInit(DefaultMaxSize, DefaultPolicy)
    /\ \E rpm \in (1..MaxRpm) \cup {DefaultRpm, AppRpm} :
          \E cs \in IF rpm <= MaxRpm THEN {ClientKeys}
                     ELSE {{k} : k \in ClientKeys} :
             LimiterInit(rpm, cs)
    /\ StreamInit(None)
    /\ AppStarted
    /\ EdgeIdle

NextRL ==
    \/ \E k \in ClientKeys :
          Dispatch(k) /\ StoreIdle
                      /\ UNCHANGED <<stvars, tmvars, wrvars, auvars, pivars,
                                   lpvars, obvars>>
    \/ Tick /\ StoreIdle /\ UNCHANGED <<stvars, tmvars, wrvars, auvars, pivars,
                                   lpvars, obvars>>

\* the rate limiter under requests and a clock that never goes back
SpecRL == InitRL /\ [][NextRL]_vars

\* ------------------------------------------- RateLimitMiddleware, observed

\* a time window opens at the present instant
OpenWindow ==
    /\ window.start = NoneNum
    /\ window' = [start |-> now, admitted |-> [k \in ClientKeys |-> 0]]
    /\ UNCHANGED <<rlvars, now, denied_since>>

\* dispatch, lines 24-53, with its outcome noted: an admission inside the
\* open window is counted, a denial begins or continues the key's run of
\* denied checks, an admission ends it
Check(k) ==
    /\ Dispatch(k)
    /\ window' =
          IF window.start # NoneNum /\ response'.status_code = 200
          THEN [window EXCEPT !.admitted[k] = @ + 1]
          ELSE window
    /\ denied_since' =
          [denied_since EXCEPT ![k] =
              IF response'.status_code = 200
              THEN IF @.since = NoneNum THEN @
                   ELSE [since |-> NoneNum, ended_after |-> now - @.since]
              ELSE IF @.since = NoneNum THEN [@ EXCEPT !.since = now] ELSE @]

\* the store, the streams and the edge play no part
LimiterFrame ==
    /\ StoreIdle
    /\ UNCHANGED <<stvars, tmvars, wrvars, auvars, pivars, lpvars>>

\* small capacities, whose requests are few enough to follow through a window
InitWindow ==
    /\ StoreInit(DefaultMaxSize, DefaultPolicy)
    /\ \E rpm \in 1..MaxRpm, k \in ClientKeys : LimiterInit(rpm, {k})
    /\ StreamInit(None)
    /\ AppStarted
    /\ EdgeIdle

NextWindow ==
    \/ \E k \in ClientKeys : Check(k) /\ LimiterFrame
    \/ Tick /\ LimiterFrame /\ UNCHANGED obvars
    \/ OpenWindow /\ LimiterFrame

\* the rate limiter with the admissions inside a window of time counted
SpecWindow == InitWindow /\ [][NextWindow]_vars

NextRetry ==
    \/ \E k \in ClientKeys : Check(k) /\ LimiterFrame
    \/ Tick /\ LimiterFrame /\ UNCHANGED obvars

\* the rate limiter with each key's run of denied checks observed
SpecRetry == InitRL /\ [][NextRetry]_vars

\* --------------------------------------------------- logs_stream.generate_logs

\* the store after n accepted adds of distinct entries, nothing dropped
Backlog(n) == [i \in 1..n |-> LogEntry(i, "INFO", "main", None)]

StoreFilled(n) ==
    /\ max_size = DefaultMaxSize
    /\ policy = DefaultPolicy
    /\ _buffer = Backlog(n)
    /\ _locked = FALSE
    /\ _add_count = n
    /\ _drop_count = 0
    /\ _dropped_count = 0
    /\ _last_warning = 0
    /\ now = T0
    /\ pc = [t \in Tasks |-> "idle"]
    /\ op = [t \in Tasks |-> None]
    /\ arg = [t \in Tasks |-> NoArg]
    /\ ret = [t \in Tasks |-> Pending]
    /\ start_time = [t \in Tasks |-> 0]
    /\ history = [i \in 1..n |-> <<Backlog(n)[i], TRUE>>]
    /\ cleared = FALSE

\* the sizes of the store a stream connects to
StoreSizes == {0, 2, BacklogLimit + 1}

Event(type, payload) == [event |-> type, data |-> payload]

Emit(s, e) == events' = [events EXCEPT ![s] = Append(events[s], e)]

Heartbeats(s) ==
    Cardinality({i \in 1..Len(events[s]) : events[s][i].event = "heartbeat"})

\* lines 75-81: the initial connection message
StreamConnected(s) ==
    /\ spc[s] = "start"
    /\ Emit(s, Event("connected",
                     [message |-> "Log stream connected", timestamp |-> now]))
    /\ spc' = [spc EXCEPT ![s] = "read"]
    /\ UNCHANGED <<api_log_buffer, recent_logs, idx, disconnected, _locked>>

\* line 84 on the unbound name with no "except Exception" around it: the
\* failure leaves the generator and nothing is yielded
StreamReadPropagates(s) ==
    /\ spc[s] = "read"
    /\ api_log_buffer = None
    /\ spc' = [spc EXCEPT ![s] = "closed"]
    /\ UNCHANGED <<api_log_buffer, recent_logs, idx, events, disconnected,
                   _locked>>

\* line 84 on the unbound name: None has no get_recent; lines 120-128 yield
\* the error event and the generator ends
StreamReadFails(s) ==
    /\ spc[s] = "read"
    /\ api_log_buffer = None
    /\ Emit(s, Event("error",
                     [error |-> "AttributeError", timestamp |-> now]))
    /\ spc' = [spc EXCEPT ![s] = "closed"]
    /\ UNCHANGED <<api_log_buffer, recent_logs, idx, disconnected, _locked>>

\* line 84, get_recent entering "async with self._lock"
StreamAcquire(s) ==
    /\ spc[s] = "read"
    /\ api_log_buffer # None
    /\ ~_locked
    /\ _locked' = TRUE
    /\ spc' = [spc EXCEPT ![s] = "reading"]
    /\ UNCHANGED <<api_log_buffer, recent_logs, idx, events, disconnected>>

\* a read that goes on to the backlog with the lock still held
StreamGetRecentHolding(s) ==
    /\ spc[s] = "reading"
    /\ LET logs == GetRecentResult(_buffer, BacklogLimit) IN
        /\ recent_logs' = [recent_logs EXCEPT ![s] = logs]
        /\ spc' = [spc EXCEPT ![s] = IF Len(logs) = 0 THEN "loop" ELSE "backlog"]
    /\ idx' = [idx EXCEPT ![s] = 1]
    /\ UNCHANGED <<api_log_buffer, events, disconnected, _locked>>

\* line 84, get_recent(100) returning; an empty backlog leads to the
\* heartbeat loop at once
StreamGetRecent(s) ==
    /\ spc[s] = "reading"
    /\ LET logs == GetRecentResult(_buffer, BacklogLimit) IN
        /\ recent_logs' = [recent_logs EXCEPT ![s] = logs]
        /\ spc' = [spc EXCEPT ![s] = IF Len(logs) = 0 THEN "loop" ELSE "backlog"]
    /\ idx' = [idx EXCEPT ![s] = 1]
    /\ _locked' = FALSE
    /\ UNCHANGED <<api_log_buffer, events, disconnected>>

\* lines 85-100 reading the store itself instead of the list get_recent
\* returned
StreamLogLive(s) ==
    /\ spc[s] = "backlog"
    /\ IF idx[s] <= Len(_buffer)
       THEN Emit(s, Event("log", _buffer[idx[s]]))
       ELSE UNCHANGED events
    /\ idx' = [idx EXCEPT ![s] = idx[s] + 1]
    /\ spc' = [spc EXCEPT ![s] =
                 IF idx[s] + 1 > Len(_buffer) THEN "loop" ELSE "backlog"]
    /\ UNCHANGED <<api_log_buffer, recent_logs, disconnected, _locked>>

\* lines 85-100: one pass of the backlog loop, event and pacing sleep
StreamLog(s) ==
    /\ spc[s] = "backlog"
    /\ Emit(s, Event("log", recent_logs[s][idx[s]]))
    /\ idx' = [idx EXCEPT ![s] = idx[s] + 1]
    /\ spc' = [spc EXCEPT ![s] =
                 IF idx[s] + 1 > Len(recent_logs[s]) THEN "loop" ELSE "backlog"]
    /\ UNCHANGED <<api_log_buffer, recent_logs, disconnected, _locked>>

\* lines 103-116: one pass of the heartbeat loop; is_disconnected() ends it
StreamHeartbeat(s) ==
    /\ spc[s] = "loop"
    /\ IF disconnected[s]
       THEN /\ spc' = [spc EXCEPT ![s] = "closed"]
            /\ UNCHANGED events
       ELSE /\ Heartbeats(s) < MaxHeartbeats
            /\ Emit(s, Event("heartbeat",
                             [timestamp |-> now, status |-> "connected"]))
            /\ UNCHANGED spc
    /\ UNCHANGED <<api_log_buffer, recent_logs, idx, disconnected, _locked>>

\* lines 118-119: the task is cancelled where it is suspended (at a yield or
\* in a sleep) after the client went away; nothing more is yielded
StreamCancelled(s) ==
    /\ spc[s] \in {"read", "backlog", "loop"}
    /\ disconnected[s]
    /\ spc' = [spc EXCEPT ![s] = "closed"]
    /\ UNCHANGED <<api_log_buffer, recent_logs, idx, events, disconnected,
                   _locked>>

\* the client of stream s goes away
Disconnect(s) ==
    /\ spc[s] \notin {"start", "closed"}
    /\ ~disconnected[s]
    /\ disconnected' = [disconnected EXCEPT ![s] = TRUE]
    /\ UNCHANGED <<api_log_buffer, spc, recent_logs, idx, events, _locked>>

InitStream ==
    /\ \E n \in StoreSizes : StoreFilled(n)
    /\ LimiterInit(AppRpm, ClientKeys)
    /\ \E binding \in {None, "RingBuffer"} : StreamInit(binding)
    /\ AppStarted
    /\ EdgeIdle

\* apart from its lock the store stays as it is, and so do the rate limiter
\* and the wiring of the modules
StreamFrame ==
    UNCHANGED <<max_size, policy, _buffer, _add_count, _drop_count,
                _dropped_count, _last_warning, pc, op, arg, ret,
                start_time, history, cleared, rlvars, wrvars, auvars,
                pivars, lpvars, obvars>>

\* a step of a stream task with the clock left out of account
StreamOnly == StreamFrame /\ UNCHANGED <<now, tmvars>>

NextStream ==
    \/ \E s \in Streams : StreamConnected(s) /\ StreamOnly
    \/ \E s \in Streams : StreamReadFails(s) /\ StreamOnly
    \/ \E s \in Streams : StreamAcquire(s) /\ StreamOnly
    \/ \E s \in Streams : StreamGetRecent(s) /\ StreamOnly
    \/ \E s \in Streams : StreamLog(s) /\ StreamOnly
    \/ \E s \in Streams : StreamHeartbeat(s) /\ StreamOnly
    \/ \E s \in Streams : StreamCancelled(s) /\ StreamOnly
    \/ \E s \in Streams : Disconnect(s) /\ StreamOnly

\* stream tasks over a store that holds a backlog
SpecStream == InitStream /\ [][NextStream]_vars

\* ------------------------------------- generate_logs beside a changing store

\* the store as create_app configures it, empty, and the name log_buffer of
\* api_logs bound to it
InitStreamStore ==
    /\ StoreInit(DefaultMaxSize, DefaultPolicy)
    /\ LimiterInit(AppRpm, ClientKeys)
    /\ StreamInit("RingBuffer")
    /\ AppStarted
    /\ EdgeIdle

NextStreamStore ==
    \/ \E s \in Streams : StreamConnected(s) /\ StreamOnly
    \/ \E s \in Streams : StreamAcquire(s) /\ StreamOnly
    \/ \E s \in Streams : StreamGetRecent(s) /\ StreamOnly
    \/ \E s \in Streams : StreamLog(s) /\ StreamOnly
    \/ \E s \in Streams : StreamHeartbeat(s) /\ StreamOnly
    \/ \E s \in Streams : StreamCancelled(s) /\ StreamOnly
    \/ \E s \in Streams : Disconnect(s) /\ StreamOnly
    \/ \E t \in Callers, e \in Entries : AddNow(t, e) /\ StoreOnly
    \/ \E t \in Callers : ClearNow(t) /\ StoreOnly

\* stream tasks while another task adds to the store and clears it
SpecStreamStore == InitStreamStore /\ [][NextStreamStore]_vars

\* --------------------------------------------- generate_logs against the clock

\* line 100: asyncio.sleep(0.1), in ticks
PacingTicks == 10

\* line 116: asyncio.sleep(30), in ticks
HeartbeatTicksLonger == 45 * TicksPerSecond
HeartbeatTicks == 3000

\* the stream task is ready to run: it is not inside a sleep that still lasts
\* (a task that has sent MaxHeartbeats heartbeats runs on only to close)
Due(s) ==
    \/ spc[s] \in {"read", "reading"}
    \/ spc[s] = "backlog" /\ wake[s] <= now
    \/ /\ spc[s] = "loop" /\ wake[s] <= now
       /\ disconnected[s] \/ Heartbeats(s) < MaxHeartbeats

\* the steps that take no time (a long backlog is delivered to one
\* connection only)
TimedConnected(s) ==
    /\ Len(_buffer) <= MaxSharedBacklog
          \/ \A u \in Streams \ {s} : spc[u] = "start"
    /\ StreamConnected(s)
    /\ StreamOnly
TimedAcquire(s) == StreamAcquire(s) /\ StreamOnly
TimedGetRecent(s) == StreamGetRecent(s) /\ StreamOnly
TimedCancelled(s) == StreamCancelled(s) /\ StreamOnly

\* lines 85-100: the event, then asyncio.sleep(0.1)
TimedLog(s) ==
    /\ wake[s] <= now
    /\ StreamLog(s)
    /\ wake' = [wake EXCEPT ![s] = now + PacingTicks]
    /\ StreamFrame /\ UNCHANGED <<now, gone_at, events_at_gone>>

\* lines 103-116: the check, the heartbeat, then asyncio.sleep(30)
TimedHeartbeat(s) ==
    /\ wake[s] <= now
    /\ StreamHeartbeat(s)
    /\ wake' = IF disconnected[s] THEN wake
               ELSE [wake EXCEPT ![s] = now + HeartbeatTicks]
    /\ StreamFrame /\ UNCHANGED <<now, gone_at, events_at_gone>>

\* the client of stream s goes away now
TimedDisconnect(s) ==
    /\ Disconnect(s)
    /\ gone_at' = [gone_at EXCEPT ![s] = now]
    /\ events_at_gone' = [events_at_gone EXCEPT ![s] = Len(events[s])]
    /\ StreamFrame /\ UNCHANGED <<now, wake>>

\* every task that is ready has run: the clock moves on to the end of the
\* sleep that ends first
Advance ==
    /\ \A s \in Streams : ~Due(s)
    /\ \E s \in Streams :
          /\ spc[s] \in {"backlog", "loop"} /\ wake[s] > now
          /\ \A u \in Streams :
                (spc[u] \in {"backlog", "loop"} /\ wake[u] > now)
                   => wake[s] <= wake[u]
          /\ now' = wake[s]
    /\ StreamFrame
    /\ UNCHANGED <<_locked, stvars, tmvars>>

InitStreamTimed ==
    /\ \E n \in StoreSizes : StoreFilled(n)
    /\ LimiterInit(AppRpm, ClientKeys)
    /\ StreamInit("RingBuffer")
    /\ AppStarted
    /\ EdgeIdle

NextStreamTimed ==
    \/ \E s \in Streams : TimedConnected(s)
    \/ \E s \in Streams : TimedAcquire(s)
    \/ \E s \in Streams : TimedGetRecent(s)
    \/ \E s \in Streams : TimedLog(s)
    \/ \E s \in Streams : TimedHeartbeat(s)
    \/ \E s \in Streams : TimedCancelled(s)
    \/ \E s \in Streams : TimedDisconnect(s)
    \/ Advance

\* stream tasks with their sleeps measured on the clock
SpecStreamTimed == InitStreamTimed /\ [][NextStreamTimed]_vars

\* ------------------------------------------------- the wiring of the modules

\* the RingBuffer objects, in the order they are constructed
InstanceNames == <<"RingBuffer", "RingBuffer2", "RingBuffer3", "RingBuffer4">>

\* the values LOG_BUFFER_POLICY is set to ("ring" is none of the policies)
PolicyNames == {"drop_oldest", "block", "drop_newest", "ring"}

\* the routes of api_logs.router under the prefix main.py gives it
LogEndpoints ==
    {"/logs/recent", "/logs/search", "/logs/stats", "/logs/clear",
     "/logs/stream"}

\* add_sample_logs, lines 227-273: the entries it adds
SampleEntries == 5

\* initialize_log_buffer, lines 196-200
PolicyOf(name) ==
    IF name = "block" THEN BLOCK
    ELSE IF name = "drop_newest" THEN DROP_NEWEST
    ELSE DROP_OLDEST

\* the log endpoints, the generators and the store stay out of it
WiringFrame ==
    UNCHANGED <<rbvars, rlvars, spc, recent_logs, idx, events, disconnected,
                tmvars, auvars, pivars, lpvars, obvars>>

\* initialize_log_buffer, lines 192-207: a new RingBuffer is constructed and
\* the global name log_buffer of ring_buffer is bound to it; the names other
\* modules imported earlier keep what they were bound to
InitializeLogBuffer(size, name) ==
    LET n == InstanceNames[Cardinality(DOMAIN instances) + 1] IN
    /\ instances' = [x \in DOMAIN instances \cup {n} |->
                        IF x = n
                        THEN [max_size |-> size, policy |-> PolicyOf(name),
                              scheduled |-> 0]
                        ELSE instances[x]]
    /\ log_buffer' = n
    /\ UNCHANGED api_log_buffer

\* some code calls initialize_log_buffer, with its default arguments or
\* others, before app.main has been imported
EarlyInitialize ==
    /\ app = None
    /\ api_logs_import # "loaded"
    /\ Cardinality(DOMAIN instances) < MaxEarlyInits
    /\ \E size \in {1, DefaultMaxSize}, name \in PolicyNames :
          InitializeLogBuffer(size, name)
    /\ UNCHANGED <<api_logs_import, app, settings, served>>
    /\ WiringFrame

\* the import of api_logs (main.py line 21): line 13 binds the name
\* log_buffer to what ring_buffer.log_buffer is bound to at that moment;
\* line 277 runs add_sample_logs, whose add_log_entry (line 65) evaluates
\* log_buffer.add(...) - an AttributeError on None - and hands it to
\* asyncio.create_task - a RuntimeError when no event loop is running; a
\* failed import leaves no module behind
ImportApiLogs ==
    /\ api_logs_import # "loaded"
    /\ app = None
    /\ IF log_buffer = None
       THEN /\ api_logs_import' = "AttributeError"
            /\ UNCHANGED <<api_log_buffer, instances>>
       ELSE \E loop_running \in BOOLEAN :
               IF loop_running
               THEN /\ api_log_buffer' = log_buffer
                    /\ api_logs_import' = "loaded"
                    /\ instances' =
                         [instances EXCEPT ![log_buffer].scheduled =
                                              @ + SampleEntries]
               ELSE /\ api_logs_import' = "RuntimeError"
                    /\ UNCHANGED <<api_log_buffer, instances>>
    /\ UNCHANGED <<log_buffer, app, settings, served>>
    /\ WiringFrame

\* the rest of the import of app.main: "app = create_app()" (line 109), which
\* initializes the log buffer from the settings (lines 62-69)
CreateApp ==
    /\ api_logs_import = "loaded"
    /\ app = None
    /\ InitializeLogBuffer(settings.log_buffer_max, settings.log_buffer_policy)
    /\ app' = "FastAPI"
    /\ UNCHANGED <<api_logs_import, settings, served>>
    /\ WiringFrame

\* a request to a log endpoint: each handler of api_logs reaches the store
\* through the module's own name log_buffer (lines 84, 139, 156, 181, 216)
Endpoint(e) ==
    /\ app # None
    /\ served' = served \cup {<<e, api_log_buffer>>}
    /\ UNCHANGED <<log_buffer, instances, api_logs_import, app, settings,
                   api_log_buffer>>
    /\ WiringFrame

\* a fresh interpreter: nothing imported, the settings as the environment
\* gives them
InitWiring ==
    /\ StoreInit(DefaultMaxSize, DefaultPolicy)
    /\ LimiterInit(AppRpm, ClientKeys)
    /\ StreamInit(None)
    /\ EdgeIdle
    /\ \E size \in (1..MaxSize) \cup {DefaultMaxSize}, name \in PolicyNames :
          settings = [log_buffer_max |-> size, log_buffer_policy |-> name]
    /\ log_buffer = None
    /\ instances = <<>>
    /\ api_logs_import = "unloaded"
    /\ app = None
    /\ served = {}

NextWiring ==
    \/ EarlyInitialize
    \/ ImportApiLogs
    \/ CreateApp
    \/ \E e \in LogEndpoints : Endpoint(e)

\* the process from its start to the log endpoints being served
SpecWiring == InitWiring /\ [][NextWiring]_vars

\* ------------------------------------------------- the API key of /selftest

\* the characters of the keys considered
KeyChars == {"a", "b", " ", ","}

\* every string over cs of at most n characters
Strings(cs, n) == UNION {[1..k -> cs] : k \in 0..n}

\* str.lstrip, str.rstrip and str.strip for the blank
RECURSIVE LStrip(_)
LStrip(s) ==
    IF s # <<>> /\ Head(s) = " " THEN LStrip(Tail(s)) ELSE s

RECURSIVE RStrip(_)
RStrip(s) ==
    IF s # <<>> /\ s[Len(s)] = " " THEN RStrip(SubSeq(s, 1, Len(s) - 1))
    ELSE s

Strip(s) == LStrip(RStrip(s))

\* str.split(sep): the pieces between the separators, empty ones included
RECURSIVE Split(_, _)
Split(s, sep) ==
    IF \A i \in 1..Len(s) : s[i] # sep THEN <<s>>
    ELSE LET i == CHOOSE j \in 1..Len(s) :
                      s[j] = sep /\ \A k \in 1..(j - 1) : s[k] # sep
         IN  <<SubSeq(s, 1, i - 1)>> \o Split(SubSeq(s, i + 1, Len(s)), sep)

\* get_api_key, line 20: the stripped, non-empty pieces of settings.api_keys
valid_keys(keys) ==
    LET pieces == Split(keys, ",")
    IN  {Strip(pieces[i]) : i \in {j \in 1..Len(pieces) :
                                      Strip(pieces[j]) # <<>>}}

\* get_api_key, lines 9-29: HTTPException 401 for a missing or empty header,
\* 403 for a key that is not configured, the key otherwise
get_api_key(x_api_key, keys) ==
    IF x_api_key = NoHeader \/ x_api_key = <<>>
    THEN [status_code |-> 401, detail |-> "Missing API key"]
    ELSE IF x_api_key \notin valid_keys(keys)
    THEN [status_code |-> 403, detail |-> "Invalid API key"]
    ELSE [status_code |-> 200, detail |-> None]

\* require_api_key, lines 32-34: called without arguments, it returns the
\* marker object Depends(get_api_key); it reads no header and no setting
require_api_key == "Depends(get_api_key)"

\* the headers a client may send
HeaderValues == {NoHeader} \cup Strings(KeyChars \ {","}, MaxKeyLen)

\* POST /selftest/run, api_selftest.py lines 25-38: the dependency of the
\* route is require_api_key itself, so the framework calls it and hands its
\* return value to the handler as api_key; get_api_key is never called and
\* the header plays no part.  A body that is no SelftestRequest is answered
\* with 422 by the framework, any other request with 200.
RunSelftest(x_api_key, valid_body) ==
    /\ selftest' = [x_api_key |-> x_api_key, valid_body |-> valid_body,
                    api_key |-> require_api_key,
                    status_code |-> IF valid_body THEN 200 ELSE 422]
    /\ UNCHANGED <<api_keys, rbvars, rlvars, stvars, tmvars, wrvars, pivars,
                   lpvars, obvars>>

InitAuth ==
    /\ StoreInit(DefaultMaxSize, DefaultPolicy)
    /\ LimiterInit(AppRpm, ClientKeys)
    /\ StreamInit("RingBuffer")
    /\ AppStarted
    /\ \E keys \in Strings(KeyChars, MaxKeysLen) : AuthInit(keys)
    /\ MaskerInit(<<>>, EmptyDict)
    /\ LoopIdle
    /\ Unobserved

NextAuth ==
    \E x_api_key \in HeaderValues, valid_body \in BOOLEAN :
        RunSelftest(x_api_key, valid_body)

\* requests to /selftest/run under any configured keys
SpecAuth == InitAuth /\ [][NextAuth]_vars

\* ------------------------------------------------------------ PIIMasker

\* the characters the patterns tell apart
Digit ==
    {"0", "1", "2", "3", "4", "5", "6", "7", "8", "9"}
Upper ==
    {"A", "B", "C", "D", "E", "F", "G", "H", "I", "J", "K", "L", "M",
     "N", "O", "P", "Q", "R", "S", "T", "U", "V", "W", "X", "Y", "Z"}
Lower ==
    {"a", "b", "c", "d", "e", "f", "g", "h", "i", "j", "k", "l", "m",
     "n", "o", "p", "q", "r", "s", "t", "u", "v", "w", "x", "y", "z"}
Alnum == Upper \cup Lower \cup Digit
Word == Alnum \cup {"_"}
Space == {" ", "\t", "\n"}

\* a pattern is a sequence of items: a word boundary \b, or a character
\* class repeated between lo and hi times, as many times as possible first
Unlimited == -1
B == [b |-> TRUE, cls |-> {}, lo |-> 0, hi |-> 0]
Rep(cls, lo, hi) == [b |-> FALSE, cls |-> cls, lo |-> lo, hi |-> hi]
Lit(c) == Rep({c}, 1, 1)
Sp == Rep(Space, 0, Unlimited)
D(n) == Rep(Digit, n, n)

\* line 13: \b[A-Za-z0-9._%+-]+@[A-Za-z0-9.-]+\.[A-Z|a-z]{2,}\b
email_pattern ==
    <<B, Rep(Alnum \cup {".", "_", "%", "+", "-"}, 1, Unlimited), Lit("@"),
      Rep(Alnum \cup {".", "-"}, 1, Unlimited), Lit("."),
      Rep(Upper \cup Lower \cup {"|"}, 2, Unlimited), B>>

\* lines 16-20, in the order of the list
phone_patterns ==
    << <<Lit("+"), Lit("4"), Lit("6"), Sp, Rep(Digit, 1, 2), Sp, D(3), Sp,
         D(2), Sp, D(2)>>,
       <<Lit("0"), Rep(Digit, 1, 2), Sp, D(3), Sp, D(2), Sp, D(2)>>,
       <<Lit("+"), Lit("1"), Sp, D(3), Sp, D(3), Sp, D(4)>> >>

\* line 23: eyJ[A-Za-z0-9-_]+\.[A-Za-z0-9-_]+\.[A-Za-z0-9-_]+
jwt_pattern ==
    LET seg == Rep(Alnum \cup {"-", "_"}, 1, Unlimited)
    IN  <<Lit("e"), Lit("y"), Lit("J"), seg, Lit("."), seg, Lit("."), seg>>

\* line 26: [A-Za-z0-9]{32,}
oauth_pattern == <<Rep(Alnum, 32, Unlimited)>>

\* line 29: \b[A-Z]{2}[0-9]{2}[A-Z0-9]{4}[0-9]{7}([A-Z0-9]?){0,16}\b
iban_pattern ==
    <<B, Rep(Upper, 2, 2), D(2), Rep(Upper \cup Digit, 4, 4), D(7),
      Rep(Upper \cup Digit, 0, 16), B>>

\* line 32: \b\d{4}[\s-]?\d{4}[\s-]?\d{4}[\s-]?\d{4}\b
credit_card_pattern ==
    LET sep == Rep(Space \cup {"-"}, 0, 1)
    IN  <<B, D(4), sep, D(4), sep, D(4), sep, D(4), B>>

\* lines 35-38, in the order of the list
api_key_patterns ==
    << <<Lit("s"), Lit("k"), Lit("-"), Rep(Alnum, 48, 48)>>,
       <<Rep(Alnum, 32, Unlimited)>> >>

\* \b at offset pos: a word character on exactly one side
Boundary(t, pos) ==
    (pos >= 1 /\ t[pos] \in Word) # (pos < Len(t) /\ t[pos + 1] \in Word)

\* how many characters of cls follow offset pos, counted up to hi
RECURSIVE RunLen(_, _, _, _)
RunLen(t, pos, cls, hi) ==
    IF hi = 0 \/ pos >= Len(t) THEN 0
    ELSE IF t[pos + 1] \notin cls THEN 0
    ELSE 1 + RunLen(t, pos + 1, cls, IF hi = Unlimited THEN hi ELSE hi - 1)

\* re: the offset at which the items from the k-th on match when begun at
\* offset pos, longer repetitions tried before shorter ones; NoMatch if none
NoMatch == -1
RECURSIVE MatchFrom(_, _, _, _)
RECURSIVE TryCounts(_, _, _, _, _)
MatchFrom(pat, k, t, pos) ==
    IF k > Len(pat) THEN pos
    ELSE IF pat[k].b
    THEN IF Boundary(t, pos) THEN MatchFrom(pat, k + 1, t, pos) ELSE NoMatch
    ELSE TryCounts(pat, k, t, pos, RunLen(t, pos, pat[k].cls, pat[k].hi))

TryCounts(pat, k, t, pos, n) ==
    IF n < pat[k].lo THEN NoMatch
    ELSE LET end == MatchFrom(pat, k + 1, t, pos + n)
         IN  IF end # NoMatch THEN end ELSE TryCounts(pat, k, t, pos, n - 1)

\* '*' * n
Stars(n) == [i \in 1..n |-> "*"]

\* s[:n] and s[-n:]
First(s, n) == SubSeq(s, 1, Min(n, Len(s)))
Last(s, n) == SubSeq(s, Max(1, Len(s) - n + 1), Len(s))

\* lines 83-85, 93-95, 104-106, 114-116: the first 4 and the last 4
\* characters kept when there are 8 or more
KeepEnds(m) ==
    IF Len(m) >= 8 THEN First(m, 4) \o Stars(Len(m) - 8) \o Last(m, 4)
    ELSE Stars(Len(m))

\* an email match with the whole domain kept
mask_email_keeping_domain(email) ==
    LET parts == Split(email, "@")
    IN  First(parts[1], 2) \o Stars(Len(parts[1]) - 2) \o <<"@">> \o parts[2]

\* lines 42-47, the replacement of one email match
mask_email_match(email) ==
    LET parts == Split(email, "@")
        username == parts[1]
        domain == parts[2]
    IN  First(username, 2) \o Stars(Len(username) - 2) \o <<"@">>
          \o First(domain, 2) \o Stars(Len(domain) - 2)

\* lines 53-58, the replacement of one phone match
mask_phone_match(phone) ==
    IF Len(phone) >= 8
    THEN First(phone, 3) \o Stars(Len(phone) - 5) \o Last(phone, 2)
    ELSE Stars(Len(phone))

\* lines 66-75, the replacement of one token match
mask_jwt_match(jwt) ==
    LET parts == Split(jwt, ".")
    IN  IF Len(parts) = 3
        THEN First(parts[1], 8) \o <<".", ".", ".">> \o <<".">>
               \o First(parts[2], 8) \o <<".", ".", ".">> \o <<".">>
               \o Stars(20)
        ELSE Stars(Len(jwt))

\* the replacement function of each rule
Replacement(rule, m) ==
    CASE rule = "email" -> mask_email_match(m)
      [] rule = "phone" -> mask_phone_match(m)
      [] rule = "jwt" -> mask_jwt_match(m)
      [] OTHER -> KeepEnds(m)

\* pattern.sub(replacement, text) from offset pos on: the leftmost match is
\* replaced and the search goes on behind it
RECURSIVE Sub(_, _, _, _)
Sub(pat, rule, t, pos) ==
    IF pos >= Len(t) THEN <<>>
    ELSE LET end == MatchFrom(pat, 1, t, pos)
         IN  IF end # NoMatch /\ end > pos
             THEN Replacement(rule, SubSeq(t, pos + 1, end))
                    \o Sub(pat, rule, t, end)
             ELSE <<t[pos + 1]>> \o Sub(pat, rule, t, pos + 1)

\* lines 40-120, the seven rules
mask_email(t) == Sub(email_pattern, "email", t, 0)
mask_phone(t) ==
    Sub(phone_patterns[3], "phone",
        Sub(phone_patterns[2], "phone",
            Sub(phone_patterns[1], "phone", t, 0), 0), 0)
mask_jwt(t) == Sub(jwt_pattern, "jwt", t, 0)
mask_oauth(t) == Sub(oauth_pattern, "oauth", t, 0)
mask_iban(t) == Sub(iban_pattern, "iban", t, 0)
mask_credit_card(t) == Sub(credit_card_pattern, "credit_card", t, 0)
mask_api_keys(t) ==
    Sub(api_key_patterns[2], "api_key",
        Sub(api_key_patterns[1], "api_key", t, 0), 0)

\* mask_all, lines 122-131
mask_all(t) ==
    mask_api_keys(mask_credit_card(mask_iban(mask_oauth(mask_jwt(
        mask_phone(mask_email(t)))))))

\* a payload value carries its type first: <<"str", characters>>,
\* <<"int", <<number>>>>, <<"list", items>> or <<"dict", <<key, value>> pairs>>
Str(t) == <<"str", t>>
Num(n) == <<"int", <<n>> >>
List(items) == <<"list", items>>
Dict(pairs) == <<"dict", pairs>>

\* mask_dict, lines 133-149
RECURSIVE mask_dict(_)
mask_dict(d) ==
    Dict([i \in 1..Len(d[2]) |->
            LET key == d[2][i][1]
                value == d[2][i][2]
            IN  <<key,
                  IF value[1] = "str" THEN Str(mask_all(value[2]))
                  ELSE IF value[1] = "dict" THEN mask_dict(value)
                  ELSE IF value[1] = "list"
                  THEN List([j \in 1..Len(value[2]) |->
                               LET item == value[2][j]
                               IN  IF item[1] = "dict" THEN mask_dict(item)
                                   ELSE IF item[1] = "str"
                                   THEN Str(mask_all(item[2]))
                                   ELSE item])
                  ELSE value>>])

\* the texts of the documentation and some that several rules match
JohnDoe ==          \* john.doe@example.com
    <<"j", "o", "h", "n", ".", "d", "o", "e", "@", "e", "x", "a", "m",
      "p", "l", "e", ".", "c", "o", "m">>
TestCard ==         \* 4111 1111 1111 1111
    <<"4", "1", "1", "1", " ", "1", "1", "1", "1", " ", "1", "1", "1",
      "1", " ", "1", "1", "1", "1">>
PhoneThenEmail ==   \* 070 123 45 67@example.com
    <<"0", "7", "0", " ", "1", "2", "3", " ", "4", "5", " ", "6", "7",
      "@", "e", "x", "a", "m", "p", "l", "e", ".", "c", "o", "m">>
ShortEmail ==       \* 0701234567@a.se
    <<"0", "7", "0", "1", "2", "3", "4", "5", "6", "7", "@", "a", ".",
      "s", "e">>
Plain ==            \* ok
    <<"o", "k">>
SampleTexts == {JohnDoe, TestCard, PhoneThenEmail, ShortEmail, Plain}

\* texts that one of the rules for secrets matches from end to end
OpenAIKey ==        \* sk-abcDEFghiJKLmnoPQ...
    <<"s", "k", "-", "a", "b", "c", "D", "E", "F", "g", "h", "i", "J", "K",
      "L", "m", "n", "o", "P", "Q", "R", "s", "t", "u", "V", "W", "X", "y",
      "z", "A", "B", "C", "d", "e", "f", "G", "H", "I", "j", "k", "l", "M",
      "N", "O", "p", "q", "r", "S", "T", "U", "v">>
WebToken ==         \* eyJhbGciOiJIUzI1NiIsInR5cCI6IkpX.eyJz.ab
    <<"e", "y", "J", "h", "b", "G", "c", "i", "O", "i", "J", "I", "U", "z",
      "I", "1", "N", "i", "I", "s", "I", "n", "R", "5", "c", "C", "I", "6",
      "I", "k", "p", "X", ".", "e", "y", "J", "z", ".", "a", "b">>
Iban ==             \* GB82WEST12345698765432
    <<"G", "B", "8", "2", "W", "E", "S", "T", "1", "2", "3", "4", "5", "6",
      "9", "8", "7", "6", "5", "4", "3", "2">>
LongCode ==         \* abcdefghijklmnopqrstuvwxyzABCDEF
    <<"a", "b", "c", "d", "e", "f", "g", "h", "i", "j", "k", "l", "m", "n",
      "o", "p", "q", "r", "s", "t", "u", "v", "w", "x", "y", "z", "A", "B",
      "C", "D", "E", "F">>
Secrets == {OpenAIKey, WebToken, Iban, LongCode}

\* every short text over a few characters
TextChars == {"a", ".", "@", " "}
SmallTexts == Strings(TextChars, MaxTextLen)

\* 16 digits in groups of four, each gap empty, a space or a hyphen
CardGroups ==
    {<<"4", "1", "1", "1">>, <<"1", "1", "1", "1">>, <<"0", "1", "2", "3">>}
CardGaps == {<<>>, <<" ">>, <<"-">>}
Cards ==
    {g[1] \o p[1] \o g[2] \o p[2] \o g[3] \o p[3] \o g[4] :
        g \in [1..4 -> CardGroups], p \in [1..3 -> CardGaps]}

Texts == SmallTexts \cup SampleTexts \cup Cards \cup Secrets

\* payloads nested up to a depth: strings, a number, lists and mappings
Leaves == {Str(JohnDoe), Str(Plain), Num(1)}
RECURSIVE Values(_)
Values(depth) ==
    IF depth = 0 THEN Leaves
    ELSE LET V == Values(depth - 1)
         IN  V \cup {List(<<v>>) : v \in V} \cup {Dict(<< <<"k", v>> >>) : v \in V}
Payloads == {Dict(<< <<"a", v>>, <<"n", Num(1)>> >>) : v \in Values(MaxDepth)}

\* pii_masker.mask_all(text)
MaskAll ==
    /\ masked = NotMasked
    /\ masked' = mask_all(text)
    /\ UNCHANGED <<text, data, masked_data, rbvars, rlvars, stvars, tmvars,
                   wrvars, auvars, lpvars, obvars>>

\* pii_masker.mask_dict(data)
MaskDict ==
    /\ masked_data = NotMasked
    /\ masked_data' = mask_dict(data)
    /\ UNCHANGED <<text, masked, data, rbvars, rlvars, stvars, tmvars,
                   wrvars, auvars, lpvars, obvars>>

InitMask ==
    /\ StoreInit(DefaultMaxSize, DefaultPolicy)
    /\ LimiterInit(AppRpm, ClientKeys)
    /\ StreamInit("RingBuffer")
    /\ AppStarted
    /\ AuthInit(DefaultApiKeys)
    /\ \/ \E t \in Texts : MaskerInit(t, EmptyDict)
       \/ \E d \in Payloads : MaskerInit(<<>>, d)
    /\ LoopIdle
    /\ Unobserved

NextMask ==
    \/ MaskAll
    \/ MaskDict

\* the masker applied to texts and to payloads
SpecMask == InitMask /\ [][NextMask]_vars

TypeOK ==
    /\ max_size \in 1..DefaultMaxSize
    /\ policy \in BufferPolicy
    /\ _locked \in BOOLEAN
    /\ \A t \in Tasks :
          pc[t] \in {"idle", "created", "acquire", "locked", "sleep"}

\* ------------------------------------------------------------------- claims

\* the entries passed to the add calls that have returned, in order
Added == [i \in 1..Len(history) |-> history[i][1]]

\* the task holds the store's lock
InCS(t) == pc[t] \in {"locked", "sleep"}

\* C1: in every reachable state, under every overflow policy and after any
\* interleaving of add, clear and reading operations, the store holds at
\* most max_size entries.
C1_BoundedSize == Len(_buffer) <= max_size

C1_Witness ==
    /\ Len(history) > max_size
    /\ Len(_buffer) = max_size
    /\ \E t \in Tasks : op[t] = "add" /\ pc[t] = "idle"

\* C2: under drop_oldest, after n add calls on the initially empty store with
\* no clear in between, every add has returned True, the store holds the last
\* min(n, max_size) added entries in insertion order, and
\* dropped = droppedOldest = max(0, n - max_size).
C2_DropOldestRecency ==
    (policy = DROP_OLDEST /\ ~cleared) =>
        LET n == Len(history) IN
        /\ \A i \in 1..n : history[i][2] = TRUE
        /\ _buffer = LastN(Added, Min(n, max_size))
        /\ _drop_count = Max(0, n - max_size)
        /\ _dropped_count = Max(0, n - max_size)

C2_Witness ==
    /\ policy = DROP_OLDEST /\ ~cleared
    /\ max_size = 2
    /\ Len(history) > max_size
    /\ _buffer[1] # _buffer[2]

\* C3: the store operations exclude one another: at most one task is inside
\* "async with self._lock" at any time, the lock is held exactly while one is,
\* and the buffer never disagrees with its counters (before any clear, the
\* size is added - droppedOldest).
C3_MutualExclusion ==
    /\ \A t, u \in Tasks : (InCS(t) /\ InCS(u)) => t = u
    /\ _locked <=> \E t \in Tasks : InCS(t)
    /\ ~cleared => Len(_buffer) = _add_count - _dropped_count

C3_Witness ==
    \E t, u \in Tasks :
        /\ pc[t] = "sleep"
        /\ pc[u] = "acquire" /\ op[u] \in {"get_stats", "clear", "add"}

\* C8: under block, an add that found the store full and whose wait overlaps
\* a clear() issued by another task before the wait budget elapsed inserts
\* its entry and returns True.
C8_BlockedAddSucceedsOnClear ==
    [][\A t \in Tasks :
          ( /\ policy = BLOCK
            /\ op[t] = "add" /\ pc[t] = "sleep"
            /\ now - start_time[t] <= Timeout
            /\ \E u \in Tasks \ {t} : op[u] = "clear" /\ pc[u] = "acquire"
            /\ pc'[t] = "idle" )
          => ( /\ ret'[t][2] = TRUE
               /\ _buffer' = Append(_buffer, arg[t]) \/ _buffer' = <<arg[t]>> )
      ]_vars

\* C9: under block, an add on a store that stays full for the whole wait
\* budget changes neither the stored sequence nor added while it waits, and
\* returns only once the budget is spent: it returns False and dropped has
\* grown by exactly 1.
C9_BlockTimeoutDrops ==
    [][\A t \in Tasks :
          ( /\ policy = BLOCK
            /\ op[t] = "add" /\ InCS(t)
            /\ Len(_buffer) >= max_size )
          => ( /\ _buffer' = _buffer
               /\ _add_count' = _add_count
               /\ IF pc'[t] = "idle"
                  THEN /\ ret'[t][2] = FALSE
                       /\ _drop_count' = _drop_count + 1
                       /\ now' - start_time[t] > Timeout
                  ELSE _drop_count' = _drop_count )
      ]_vars

C9_Witness ==
    /\ policy = BLOCK
    /\ \E t \in Tasks : op[t] = "add" /\ pc[t] = "idle" /\ ret[t][2] = FALSE
    /\ _drop_count >= 1
    /\ Len(_buffer) = max_size

\* C10: under drop_newest, an add on a full store returns False, increases
\* dropped by exactly 1 and leaves the stored sequence, added and
\* droppedOldest unchanged.
C10_DropNewestFrame ==
    [][\A t \in Tasks :
          ( /\ policy = DROP_NEWEST
            /\ op[t] = "add" /\ pc[t] = "locked"
            /\ Len(_buffer) >= max_size
            /\ pc'[t] # "locked" )
          => ( /\ pc'[t] = "idle"
               /\ ret'[t][2] = FALSE
               /\ _drop_count' = _drop_count + 1
               /\ _buffer' = _buffer
               /\ _add_count' = _add_count
               /\ _dropped_count' = _dropped_count )
      ]_vars

C10_Witness ==
    /\ policy = DROP_NEWEST
    /\ \E t \in Tasks : op[t] = "add" /\ pc[t] = "idle" /\ ret[t][2] = FALSE
    /\ _drop_count >= 1
    /\ _dropped_count = 0

\* the bucket of k was created since the clock last moved
Fresh(k) == k \in DOMAIN buckets /\ k \notin DOMAIN at_tick

\* C4: for every client key, the stored token count lies in
\* [0, requests_per_minute], in every reachable state.
C4_BucketBound ==
    \A k \in DOMAIN buckets :
        /\ buckets[k][1] >= 0
        /\ buckets[k][1] <= requests_per_minute * TokenUnit

\* a request admitted after a pause long enough to overfill the bucket
C4_Witness ==
    \E k \in DOMAIN at_tick :
        /\ at_tick[k][1] + (now - at_tick[k][2]) > requests_per_minute * TokenUnit
        /\ admitted_now[k] >= 1
        /\ buckets[k][1] = (requests_per_minute - 1) * TokenUnit

\* C5: a fresh bucket admits exactly requests_per_minute requests made at the
\* same instant and denies the next one; with 60 requests per minute, one
\* second after the bucket was emptied exactly one further request is
\* admitted and the request after it is denied.
C5_AdmissionBurst ==
    \A k \in clients :
        /\ Fresh(k) =>
              /\ admitted_now[k] <= requests_per_minute
              /\ denied_now[k] > 0 => admitted_now[k] = requests_per_minute
        /\ ( /\ requests_per_minute = 60
             /\ k \in DOMAIN at_tick
             /\ at_tick[k] = <<0, now - TicksPerSecond>> ) =>
              /\ admitted_now[k] <= 1
              /\ denied_now[k] > 0 => admitted_now[k] = 1

C5_Witness ==
    \E k \in clients :
        /\ requests_per_minute = 60
        /\ k \in DOMAIN at_tick
        /\ at_tick[k] = <<0, now - TicksPerSecond>>
        /\ admitted_now[k] = 1
        /\ denied_now[k] >= 1

\* C6: for every configured capacity C a bucket refills at C/60 tokens per
\* second: an admission check finds min(C, tokens + elapsedSeconds * C/60)
\* tokens (both sides taken 60 times, in hundredths of a token), so that a
\* bucket emptied 60 seconds earlier is found full.
C6_RefillProportional ==
    [][\A k \in DOMAIN buckets :
          (k \in DOMAIN buckets' /\ buckets'[k] # buckets[k]) =>
              60 * (buckets'[k][1] + TokenUnit) =
                  Min(60 * requests_per_minute * TokenUnit,
                      60 * buckets[k][1]
                        + (now - buckets[k][2]) * requests_per_minute)
      ]_vars

SuppliedStr(x) == x # None
SuppliedNum(x) == x # NoneNum

\* the entry passes every filter the caller supplied
Satisfies(entry, f) ==
    /\ SuppliedStr(f.level) => entry.level = f.level
    /\ SuppliedStr(f.module) => entry.module = f.module
    /\ SuppliedStr(f.correlation_id) => entry.correlation_id = f.correlation_id
    /\ SuppliedNum(f.start_time) => f.start_time <= entry.timestamp
    /\ SuppliedNum(f.end_time) => entry.timestamp <= f.end_time

Reverse(s) == [i \in 1..Len(s) |-> s[Len(s) + 1 - i]]

NonDecreasing(s) ==
    \A i \in 1..Len(s) : i < Len(s) => s[i].timestamp <= s[i + 1].timestamp

NonIncreasing(s) ==
    \A i \in 1..Len(s) : i < Len(s) => s[i].timestamp >= s[i + 1].timestamp

\* C11: get_recent(limit) returns exactly the last min(limit, size) stored
\* entries, oldest first, for every limit >= 0 (0 included) and every size.
C11_GetRecentLastEntries ==
    \A t \in Callers :
        op[t] = "get_recent" =>
            ret[t][2] = LastN(_buffer, Min(arg[t], Len(_buffer)))

\* C12: search(filters, limit) returns, newest first, the min(limit, m)
\* newest of the m stored entries that pass all supplied filters: a prefix of
\* the reversed matching subsequence, with no more than limit entries.
C12_SearchNewestMatches ==
    \A t \in Callers :
        op[t] = "search" =>
            LET f == arg[t].filters
                matching == SelectSeq(_buffer, LAMBDA e : Satisfies(e, f))
                m == Len(matching)
            IN ret[t][2] = SubSeq(Reverse(matching), 1, Min(arg[t].limit, m))

\* C13: every entry search returns passes each filter the caller supplied,
\* the number 0 and the empty string included.
C13_SearchResultsPassFilters ==
    \A t \in Callers :
        op[t] = "search" =>
            \A i \in 1..Len(ret[t][2]) :
                Satisfies(ret[t][2][i], arg[t].filters)

\* C14 as stated: whatever add calls built the store, the timestamps of a
\* search result never increase and those of get_recent and get_all results
\* never decrease.
C14_TimestampOrder ==
    \A t \in Callers :
        /\ op[t] = "search" => NonIncreasing(ret[t][2])
        /\ op[t] \in {"get_recent", "get_all"} => NonDecreasing(ret[t][2])

\* C14 as amended: when the add calls were made in non-decreasing timestamp
\* order, the timestamps of a search result never increase and those of
\* get_recent and get_all results never decrease.
C14_TimestampOrderOfOrderedAdds ==
    NonDecreasing(Added) =>
        \A t \in Callers :
            /\ op[t] = "search" => NonIncreasing(ret[t][2])
            /\ op[t] \in {"get_recent", "get_all"} => NonDecreasing(ret[t][2])

C14_Witness ==
    /\ NonDecreasing(Added)
    /\ \E t \in Callers :
          /\ op[t] = "search"
          /\ Len(ret[t][2]) >= 2
          /\ ret[t][2][1].timestamp > ret[t][2][2].timestamp

\* C15: when an admission check finds fewer than 1 token after refill, the
\* request is answered 429 with body {detail: 'Rate limit exceeded',
\* retry_after: 60}, the downstream handler is not called (no admission is
\* counted) and the stored buckets are left as they were.
C15_DenialFrame ==
    [][\A k \in ClientKeys :
          ( /\ now' = now
            /\ response'.client = k
            /\ k \in DOMAIN buckets
            /\ Min(requests_per_minute * TokenUnit,
                   buckets[k][1] + (now - buckets[k][2])) < TokenUnit )
          => ( /\ response'.status_code = 429
               /\ response'.content =
                    [detail |-> "Rate limit exceeded", retry_after |-> 60]
               /\ admitted_now' = admitted_now
               /\ buckets' = buckets )
      ]_vars

\* a request denied some time after the bucket was last stored
C15_Witness ==
    \E k \in DOMAIN buckets :
        /\ denied_now[k] >= 1
        /\ admitted_now[k] = 0
        /\ buckets[k][2] < now
        /\ buckets[k][1] + (now - buckets[k][2]) > buckets[k][1]

\* the whole tokens the checks of this instant found for key k
Available(k) ==
    IF k \in DOMAIN at_tick
    THEN Min(requests_per_minute * TokenUnit,
             at_tick[k][1] + (now - at_tick[k][2])) \div TokenUnit
    ELSE requests_per_minute

\* C16: of the admission checks made on one key at one instant, no more are
\* admitted than whole tokens were available before them, and each admitted
\* check has taken its own token from the stored bucket.
C16_NoDoubleSpend ==
    \A k \in clients :
        /\ admitted_now[k] <= Available(k)
        /\ admitted_now[k] > 0 =>
              buckets[k][1] \div TokenUnit = Available(k) - admitted_now[k]

C16_Witness ==
    \E k \in DOMAIN at_tick :
        /\ Available(k) >= 2
        /\ admitted_now[k] = Available(k)
        /\ denied_now[k] >= 1

\* the entries carried by the log events of stream s, in the order sent
LogData(s) ==
    LET logs == SelectSeq(events[s], LAMBDA e : e.event = "log")
    IN [i \in 1..Len(logs) |-> logs[i].data]

\* C17: the log events of a connection are the entries of one
\* get_recent(100) read made after the connected event, oldest first: they
\* follow the list that read returned whatever is added or cleared later,
\* and are all of it once the backlog has been delivered; the list is set
\* only by that read, and no event already sent is ever taken back.
C17_BacklogSnapshot ==
    /\ [](\A s \in Streams :
            /\ Len(LogData(s)) <= Len(recent_logs[s])
            /\ LogData(s) = SubSeq(recent_logs[s], 1, Len(LogData(s)))
            /\ spc[s] = "loop" => LogData(s) = recent_logs[s])
    /\ [][\A s \in Streams :
            /\ recent_logs'[s] # recent_logs[s] =>
                  /\ spc[s] = "reading"
                  /\ events[s] # <<>> /\ events[s][1].event = "connected"
                  /\ recent_logs'[s] =
                        LastN(_buffer, Min(BacklogLimit, Len(_buffer)))
            /\ Len(events'[s]) >= Len(events[s])
            /\ SubSeq(events'[s], 1, Len(events[s])) = events[s]
       ]_vars

\* a delivered backlog of two entries, the store cleared and added to since
C17_Witness ==
    \E s \in Streams :
        /\ spc[s] = "loop"
        /\ Len(recent_logs[s]) >= 2
        /\ LogData(s) = recent_logs[s]
        /\ cleared
        /\ Len(_buffer) = 1

\* C18: a stream task whose client has disconnected has terminated 30 s
\* later at the latest, whether the client went during the backlog or
\* during the heartbeat loop: while the task is still alive no more than
\* 30 s have passed since, and it closes within that time.
C18_DisconnectLatency ==
    /\ [](\A s \in Streams :
            (disconnected[s] /\ spc[s] # "closed") =>
                now - gone_at[s] <= 30 * TicksPerSecond)
    /\ [][\A s \in Streams :
            (disconnected[s] /\ spc[s] # "closed" /\ spc'[s] = "closed") =>
                now' - gone_at[s] <= 30 * TicksPerSecond
       ]_vars

\* a task about to see, 30 s late, that its client went right after a
\* heartbeat, and a task closed at its first check after a whole backlog
C18_Witness ==
    /\ \E s \in Streams :
          /\ spc[s] = "loop" /\ disconnected[s]
          /\ now - gone_at[s] = 30 * TicksPerSecond
    /\ \E u \in Streams :
          /\ spc[u] = "closed" /\ Heartbeats(u) = 0
          /\ Len(recent_logs[u]) >= 2
          /\ LogData(u) = recent_logs[u]

\* the positions of the error events of stream s
Errors(s) == {i \in 1..Len(events[s]) : events[s][i].event = "error"}

C20_EndpointsUseConfiguredStore ==
    app # None =>
        \A r \in served :
            /\ r[2] = log_buffer
            /\ r[2] \in DOMAIN instances
            /\ instances[r[2]].max_size = settings.log_buffer_max
            /\ instances[r[2]].policy = PolicyOf(settings.log_buffer_policy)

\* C21: POST /selftest/run is answered with 401 when no X-API-Key header is
\* sent, with 403 when the key is not one of the configured keys, and with
\* 200 only when the key is one of the configured keys
C21_SelftestRequiresKey ==
    selftest # NoRequest =>
        selftest.status_code
            = get_api_key(selftest.x_api_key, api_keys).status_code

\* the three rate-limit headers, lines 49-51
RateLimitHeaders == {"XRateLimitLimit", "XRateLimitRemaining", "XRateLimitReset"}

\* C22: every response returned through the rate limiter, whether the
\* request was admitted or denied with 429, carries the headers
\* X-RateLimit-Limit, X-RateLimit-Remaining and X-RateLimit-Reset.
C22_HeadersOnEveryResponse ==
    [][now' = now => RateLimitHeaders \subseteq DOMAIN response'.headers]_vars

\* C22 as amended: every response to an admitted request carries the three
\* headers; the 429 response of a denied request carries none of them.
C22_HeadersOnAdmittedOnly ==
    [][now' = now =>
          IF response'.status_code = 429
          THEN RateLimitHeaders \cap DOMAIN response'.headers = {}
          ELSE RateLimitHeaders \subseteq DOMAIN response'.headers
      ]_vars

\* one key at one instant: a request admitted, then a request denied
C22_Witness ==
    \E k \in clients : admitted_now[k] >= 1 /\ denied_now[k] >= 1

\* C23: clear() returns the number of entries stored when it ran and leaves
\* the store empty, while leaving the counters added, dropped and
\* droppedOldest unchanged; no operation ever decreases a counter.
C23_ClearFrame ==
    [][ /\ \A t \in Callers :
              op'[t] = "clear" =>
                  /\ ret'[t][2] = Len(_buffer)
                  /\ _buffer' = <<>>
                  /\ _add_count' = _add_count
                  /\ _drop_count' = _drop_count
                  /\ _dropped_count' = _dropped_count
        /\ _add_count' >= _add_count
        /\ _drop_count' >= _drop_count
        /\ _dropped_count' >= _dropped_count
      ]_vars

\* a clear that removed entries from a store that had counted adds and drops
C23_Witness ==
    \E t \in Callers :
        /\ op[t] = "clear"
        /\ ret[t][2] >= 1
        /\ _buffer = <<>>
        /\ _add_count >= 1
        /\ _drop_count >= 1

\* the log events stream s has yielded
LogEvents(s) == SelectSeq(events[s], LAMBDA ev : ev.event = "log")

RECURSIVE DeepMasked(_)
DeepMasked(v) ==
    IF v[1] = "str" THEN <<"str", mask_all(v[2])>>
    ELSE IF v[1] = "list"
    THEN <<"list", [i \in 1..Len(v[2]) |-> DeepMasked(v[2][i])]>>
    ELSE IF v[1] = "dict"
    THEN <<"dict", [i \in 1..Len(v[2]) |->
                      <<v[2][i][1], DeepMasked(v[2][i][2])>>]>>
    ELSE v

\* C25: mask_dict returns a structure of the same shape in which every
\* string value at any nesting depth of mappings and sequences (sequences
\* nested in sequences included) has been replaced by mask_all of it, and
\* every other value is unchanged.
C25_MaskDictDeep ==
    masked_data # NotMasked => masked_data = DeepMasked(data)

\* the email matches of t from offset pos on, as <<from, to>> offsets
RECURSIVE EmailMatches(_, _)
EmailMatches(t, pos) ==
    IF pos >= Len(t) THEN {}
    ELSE LET end == MatchFrom(email_pattern, 1, t, pos)
         IN  IF end # NoMatch THEN {<<pos, end>>} \cup EmailMatches(t, end)
             ELSE EmailMatches(t, pos + 1)

\* an email with the first two characters of its local part and of its
\* domain and the '@' kept, every other character turned into '*'
StarredEmail(email) ==
    LET at == CHOOSE i \in 1..Len(email) : email[i] = "@"
    IN  [i \in 1..Len(email) |->
            IF i = at THEN "@"
            ELSE IF (i < at /\ i <= 2) \/ (i > at /\ i <= at + 2) THEN email[i]
            ELSE "*"]

\* C26: mask_all masks every matched email by keeping the first two
\* characters of the local part and the first two of the domain and
\* replacing each remaining character of both with '*', keeping the '@' and
\* the total length; 'john.doe@example.com' becomes 'jo******@ex*********'.
\* (The email is looked for where it stood, so the property is stated of the
\* texts in which no other rule changes the length of its match.)
C26_EmailMasked ==
    (masked # NotMasked /\ Len(masked) = Len(text)) =>
        \A m \in EmailMatches(text, 0) :
            SubSeq(masked, m[1] + 1, m[2])
                = StarredEmail(SubSeq(text, m[1] + 1, m[2]))

\* the example of the documentation, masked
C26_Witness ==
    /\ text = JohnDoe
    /\ masked =
         <<"j", "o", "*", "*", "*", "*", "*", "*", "@", "e", "x",
           "*", "*", "*", "*", "*", "*", "*", "*", "*">>

\* C27: mask_all turns every credit-card-shaped string (16 digits, written
\* contiguously or in groups of four separated by a space or hyphen) into
\* its first 4 characters, then one '*' per middle character, then its last
\* 4 characters, length preserved.
C27_CardMasked ==
    (masked # NotMasked /\ text \in Cards) =>
        masked = SubSeq(text, 1, 4) \o [i \in 1..(Len(text) - 8) |-> "*"]
                   \o SubSeq(text, Len(text) - 3, Len(text))

\* C28: while a block-policy add is waiting on a full store it keeps the
\* store guard, so every other store operation issued meanwhile (get_recent,
\* get_all, search, get_stats, clear, other adds) is delayed until that add
\* returns: it stays before the guard.
C28_WaiterKeepsGuard ==
    [][\A t \in Tasks :
          pc[t] = "sleep" =>
              /\ _locked
              /\ \A u \in Tasks \ {t} :
                    /\ pc[u] \in {"idle", "acquire"}
                    /\ pc'[u] \in {"idle", "acquire"}
                    /\ pc[u] = "acquire" => pc'[u] = "acquire"
      ]_vars

\* an operation invoked while an add has been waiting for some time
C28_Witness ==
    \E t \in Tasks, u \in Tasks :
        /\ t # u
        /\ pc[t] = "sleep"
        /\ now > start_time[t]
        /\ pc[u] = "acquire"
        /\ op[u] \in {"clear", "get_recent", "add"}

\* C29: under any interleaving of concurrent store operations and an
\* advancing clock, every invoked store operation eventually returns: a
\* block-policy add waits no longer than its wait budget, and the operations
\* queued behind it acquire the guard after it returns.
C29_EveryOperationReturns ==
    /\ \A t \in Tasks : (pc[t] # "idle") ~> (pc[t] = "idle")
    /\ [](\A t \in Tasks : pc[t] = "sleep" => now - start_time[t] <= Timeout)

\* an add that waited out its budget has returned False while another
\* operation is queued behind it
C29_Witness ==
    \E t \in Tasks, u \in Tasks :
        /\ t # u
        /\ policy = BLOCK
        /\ pc[t] = "idle" /\ op[t] = "add" /\ ret[t][2] = FALSE
        /\ pc[u] = "acquire"

\* C30: no store operation is ever invoked on an uninitialised store:
\* initialize_log_buffer has constructed the RingBuffer before the first
\* add_log_entry call (the sample entries added when api_logs is imported
\* included) and before any endpoint access, so importing the application
\* succeeds.
C30_StoreInitialisedFirst ==
    /\ api_logs_import # "AttributeError"
    /\ api_logs_import = "loaded" => api_log_buffer \in DOMAIN instances
    /\ \A r \in served : r[2] \in DOMAIN instances

\* the sum of the counts of a mapping
RECURSIVE SumCounts(_)
SumCounts(counts) ==
    IF DOMAIN counts = {} THEN 0
    ELSE LET k == CHOOSE x \in DOMAIN counts : TRUE
         IN counts[k] + SumCounts([x \in DOMAIN counts \ {k} |-> counts[x]])

\* C31: in every /logs/stats response total_entries equals the sum of the
\* entries_by_level counts and the sum of the entries_by_module counts, also
\* when adds and clears of other tasks run between the handler's two reads
C31_StatsConsistent ==
    stats_request.pc = "done" =>
        /\ stats_request.total_entries = SumCounts(stats_request.entries_by_level)
        /\ stats_request.total_entries = SumCounts(stats_request.entries_by_module)

\* the number of entries a clear() that returns in this step reports removed
RemovedByClear ==
    IF \E t \in Tasks : op[t] = "clear" /\ pc[t] = "locked" /\ pc'[t] = "idle"
    THEN LET t == CHOOSE u \in Tasks :
                      op[u] = "clear" /\ pc[u] = "locked" /\ pc'[u] = "idle"
         IN ret'[t][2]
    ELSE 0

\* C32: size = added - droppedOldest - (entries removed by clear calls) in
\* every reachable state: it holds of the new store and every step changes
\* both sides alike; droppedOldest <= dropped; droppedOldest > 0 only under
\* drop_oldest
C32_Accounting ==
    /\ Len(_buffer) = _add_count - _dropped_count
    /\ [][Len(_buffer') - Len(_buffer) =
            (_add_count' - _add_count) - (_dropped_count' - _dropped_count)
            - RemovedByClear]_vars
    /\ [](_dropped_count <= _drop_count)
    /\ [](_dropped_count > 0 => policy = DROP_OLDEST)

\* a store that has evicted an entry, has been cleared of a non-empty
\* buffer and holds an entry again
C32_Witness ==
    /\ _dropped_count > 0
    /\ Len(_buffer) > 0
    /\ \E t \in Tasks : ret[t][1] = "clear" /\ ret[t][2] > 0

\* C33: for every capacity and every key, the requests admitted in a time
\* window of T seconds are at most C + T * C / 60 (times are in ticks, one
\* second being TicksPerSecond ticks)
C33_WindowBound ==
    window.start # NoneNum =>
        \A k \in ClientKeys :
            window.admitted[k] * 60 * TicksPerSecond <=
                requests_per_minute * 60 * TicksPerSecond
                  + (now - window.start) * requests_per_minute

\* C35: a client denied at time t, whatever number of denied checks it made
\* since, is admitted by its check made at t + 60 s or later, for every
\* capacity: denial is never permanent
C35_DenialEnds ==
    [][\A k \in ClientKeys :
          ( /\ now' = now
            /\ window'.start = window.start
            /\ response'.client = k
            /\ denied_since[k].since # NoneNum
            /\ now >= denied_since[k].since + RetryAfter * TicksPerSecond )
          => response'.status_code = 200
      ]_vars

\* a client whose run of denied checks has just been ended by an admission
\* 60 s or more after the first denial of the run
C35_Witness ==
    \E k \in ClientKeys :
        /\ denied_since[k].ended_after >= RetryAfter * TicksPerSecond
        /\ admitted_now[k] = 1

\* C34: once the client has disconnected the stream task exits within one
\* loop iteration: it emits at most one further event, whether the client
\* went during the backlog delivery or during the heartbeat loop
C34_ExitWithinOneIteration ==
    \A s \in Streams :
        disconnected[s] => Len(events[s]) - events_at_gone[s] <= 1

\* C36: a stream task holds the lock of the store only inside its one
\* get_recent call: the lock is held only while some stream is in that call,
\* by one stream at a time, and while no stream is in it (they pace their
\* backlog or sleep between heartbeats) a clear, a search and a get_all
\* issued by another task run to their return at once
C36_GuardOnlyInGetRecent ==
    /\ _locked => \E s \in Streams : spc[s] = "reading"
    /\ Cardinality({s \in Streams : spc[s] = "reading"}) <= 1
    /\ (\A s \in Streams : spc[s] # "reading") =>
          /\ ENABLED (\E t \in Callers : ClearNow(t) /\ StoreOnly)
          /\ ENABLED (\E t \in Callers, f \in SearchArgs, limit \in Limits :
                         SearchNow(t, f, limit) /\ StoreOnly)
          /\ ENABLED (\E t \in Callers : GetAllNow(t) /\ StoreOnly)

\* a stream pacing the backlog it read while the store has been cleared
\* under it, beside a stream in its heartbeat loop
C36_Witness ==
    /\ \E s \in Streams :
          /\ spc[s] = "backlog" /\ idx[s] > 1
          /\ cleared /\ _buffer = <<>>
    /\ \E u \in Streams : spc[u] = "loop" /\ Heartbeats(u) > 0

\* C37: entries submitted through add_log_entry one after the other are
\* inserted into the store in that order, under every overflow policy and
\* every interleaving: the buffer holds them in the order of their calls,
\* and the add tasks return in that order
C37_SubmissionOrder ==
    /\ \A i, j \in DOMAIN _buffer :
          i < j => _buffer[i].timestamp < _buffer[j].timestamp
    /\ \A i, j \in DOMAIN history :
          i < j => history[i][1].timestamp < history[j][1].timestamp

\* two entries inserted in the order of their calls, and a third add task
\* made and not yet started
C37_Witness ==
    /\ Len(_buffer) = 2
    /\ Len(history) = 2 /\ history[1][2] /\ history[2][2]
    /\ Len(_ready) = 1

\* C38: a high-usage warning is emitted (and _last_warning set) only by an
\* add that inserted its entry and left the occupancy at 0.8 of the
\* capacity or more, and more than 60 s after the warning before it
C38_WarningRateLimited ==
    [][_last_warning' # _last_warning =>
          /\ Len(history') = Len(history) + 1
          /\ history'[Len(history')][2]
          /\ Len(_buffer') > 0 /\ _buffer'[Len(_buffer')] = history'[Len(history')][1]
          /\ 10 * Len(_buffer') >= 8 * max_size
          /\ _last_warning' = now'
          /\ _last_warning' - _last_warning > WarnCooldown
      ]_vars

\* a second warning: the store of one entry warned at its first insert, and
\* now again at a later insert
C38_Witness ==
    /\ max_size = 1
    /\ Len(history) >= 2 /\ history[1][2]
    /\ _last_warning = now
    /\ now > T0 + WarnCooldown

\* the rules for one kind of secret each, with the format of their mask
NarrowRules ==
    << <<jwt_pattern, "jwt">>, <<iban_pattern, "iban">>,
       <<credit_card_pattern, "credit_card">>,
       <<api_key_patterns[1], "api_key">> >>

\* C39: mask_all applies the JWT, IBAN, credit-card and 'sk-' rules before
\* any broader rule that can match the same text, so a text that one of
\* them matches from end to end comes out masked in the format of that rule
\* and is not changed by another rule.
C39_NarrowRulesFirst ==
    masked # NotMasked =>
        \A i \in 1..Len(NarrowRules) :
            MatchFrom(NarrowRules[i][1], 1, text, 0) = Len(text) =>
                masked = Replacement(NarrowRules[i][2], text)

====
